---- MODULE Spec2Model ----
(***************************************************************************)
(* Model of the purgoVox mastering engine: the WorkerPool (three revisions *)
(* of the class live in the repository), the execution units it drives,    *)
(* and the join / assembly part of runMasteringPipelineParallel.           *)
(*                                                                         *)
(* The browser's event loop runs one handler at a time, so every handler   *)
(* (a message, an error event, a dispatch call) is one atomic action.      *)
(***************************************************************************)
EXTENDS Integers, Sequences, FiniteSets, TLC

(* ------------------------------ bounds --------------------------------- *)
MaxPoolSize == 2
MaxChunks == 3
MaxCrashes == 1
MaxLogLen == 4
MaxReuseJobs == 1
MaxServed == 2

(* --------------------------- program constants ------------------------- *)
PadWidth == 4
NumPasses == 4

(* Revisions of the WorkerPool class found in the repository.              *)
Variants == {"v21", "resilient", "plain"}

(* Unit scripts found in the repository: the applications pass either one  *)
(* to new WorkerPool(workerScript).                                        *)
Scripts == {"process-chunk.worker.js", "worker.js"}

Undefined == -1
NoJob == 0

VARIABLES
    variant,      \* which revision of WorkerPool is running
    script,       \* this.workerScript: the unit script the application passes
    poolSize,     \* this.poolSize
    workers,      \* this.workers as the sequence of unit ids (<<>> after terminate)
    isBusy,       \* worker.isBusy, per unit id
    onmessage,    \* worker.onmessage, per unit id: the handler installed
    onerror,      \* worker.onerror, per unit id: the handler installed
    jobQueue,     \* this.jobQueue: sequence of job ids
    activeJobs,   \* this.activeJobs: chunkIndex -> job id (NoJob: no entry)
    workerState,  \* this.workerState: unit id -> chunkIndex (Undefined: no entry)
    initPromise,  \* the promise returned by initialize()
    readyCount,   \* readyCount of initialize()
    readySeen,    \* units from which the pool received a ready message
    jobs,         \* every job passed to dispatch: jobs[j] = its chunkIndex
    future,       \* future[j]: the promise dispatch returned for job j
    inbox,        \* messages posted to a unit and not yet received by it
    outbox,       \* messages posted by a unit and not yet received by the pool
    errEvent,     \* an error event of the unit awaits delivery to worker.onerror
    unit,         \* the unit's own state: alive, isInitialized, tasks
    sent,         \* history: sent[j] = units job j was sent to, in order
    waited,       \* history: the jobs dispatch put in the queue
    crashes,      \* number of unit crashes so far
    progressSink, \* the call the onProgress callback received in the step just taken
    workerScope,  \* the module scope of a unit script that serves process commands
    call,         \* the outcome of the stage or pass function that ran last
    opc,          \* position of runMasteringPipelineParallel
    chunkCount,   \* chunkFiles.length of the run
    runJobs,      \* processingPromises: chunkIndex -> job id dispatched (NoJob: not yet)
    processedResults, \* value of Promise.all
    processedFiles,   \* the concatenation list (chunkIndex of each processed_NNNN.mp3)
    result,       \* what the run returned
    cleanupPaths, \* cleanupPaths: kinds of artifacts pushed for deletion
    created,      \* history: kinds of artifacts the run created in /work
    deleted       \* history: kinds of artifacts cleanup() called deleteFile for

poolVars == <<variant, script, poolSize, workers, isBusy, onmessage, onerror, jobQueue,
              activeJobs, workerState, initPromise, readyCount, readySeen>>
jobVars == <<jobs, future, sent, waited>>
unitVars == <<inbox, outbox, errEvent, unit, crashes>>
orchVars == <<opc, chunkCount, runJobs, processedResults, processedFiles, result,
              cleanupPaths, created, deleted>>
vars == <<poolVars, jobVars, unitVars, orchVars, progressSink, call, workerScope>>

Units == 0 .. (poolSize - 1)
ChunkIndexes == 0 .. (MaxChunks - 1)
JobIds == 1 .. Len(jobs)

(* ------------------------------ values --------------------------------- *)
InitCmd == [command |-> "init", chunkIndex |-> Undefined, job |-> NoJob]
ProcessCmd(j, c) == [command |-> "process", chunkIndex |-> c, job |-> j]
NoProgress == [workerId |-> Undefined, chunkIndex |-> Undefined, message |-> 0]

\* A message of a unit. chunkIndex is Undefined when the message carries none;
\* data names the job whose payload the unit worked on; message is the pass
\* number of a progress message.
Msg(status, chunkIndex, data, message) ==
    [status |-> status, chunkIndex |-> chunkIndex, data |-> data, message |-> message]

InitTask == [kind |-> "init", job |-> NoJob, chunkIndex |-> Undefined, pass |-> 0]
ProcessTask(cmd) == [kind |-> "process", job |-> cmd.job, chunkIndex |-> cmd.chunkIndex, pass |-> 0]

\* The process command whose handler threw before its try block: the promise
\* of the async handler is rejected, nothing is posted and nothing more runs
\* for the command; pass is Undefined.
ThrownTask(cmd) == [ProcessTask(cmd) EXCEPT !.pass = Undefined]

FreshUnit == [alive |-> TRUE, isInitialized |-> FALSE, tasks |-> {}]

PendingFuture ==
    [state |-> "pending", calls |-> 0, chunkIndex |-> Undefined, data |-> NoJob,
     reason |-> "none", unitId |-> Undefined]

\* job.resolve({chunkIndex, processedData}): a settled promise ignores the call.
Resolve(f, chunkIndex, data) ==
    IF f.state = "pending"
    THEN [f EXCEPT !.state = "resolved", !.calls = @ + 1,
                   !.chunkIndex = chunkIndex, !.data = data]
    ELSE [f EXCEPT !.calls = @ + 1]

\* job.reject(new Error(...)): reason tells a reported failure from a crash;
\* the crash error names the unit id and the chunkIndex.
Reject(f, reason, unitId, chunkIndex) ==
    IF f.state = "pending"
    THEN [f EXCEPT !.state = "rejected", !.calls = @ + 1, !.reason = reason,
                   !.unitId = unitId, !.chunkIndex = chunkIndex]
    ELSE [f EXCEPT !.calls = @ + 1]

\* resolve() / reject() of the promise of initialize().
SettleInit(p, to) == IF p = "pending" THEN to ELSE p

(* ------------------ stage and pass functions --------------------------- *)
\* What ffmpeg.exec can do: reject, or resolve with a zero or a non-zero status.
EngineOutcomes == {"throws", "zero", "nonzero"}

\* What ffmpeg.listDir can do for the artifact a function looks for.
DirOutcomes == {"listed", "absent", "throws"}

\* The revisions of runFFmpeg in the repository.
RunRevisions == {"run.js", "ffmpeg-run.js", "part_004"}

\* What a function met when it is examined on its own: the revision of
\* runFFmpeg, what the engine and the directory listing did, whether the
\* caller passed a logStore, whether the report could be read, and its text.
NoInput ==
    [rev |-> "none", engine |-> "none", hasLogStore |-> FALSE, dir |-> "none",
     readable |-> FALSE, text |-> "none", rmsLevel |-> 0,
     options |-> [gate |-> FALSE, clarity |-> FALSE, tonal |-> FALSE,
                  softClip |-> FALSE]]

\* The outcome of a function: whether it threw and why, the operations it
\* attempted on the engine in order, whether the error carries the argument
\* list (command) and the captured log text, and the value returned; in holds
\* the inputs when the function is examined on its own.
Outcome(fn, threw, cause, ops, command, log, value) ==
    [fn |-> fn, threw |-> threw, cause |-> cause, ops |-> ops,
     command |-> command, log |-> log, value |-> value, in |-> NoInput]

NoCall == Outcome("none", FALSE, "none", <<>>, FALSE, FALSE, Undefined)

\* An error built by the catch block of runFFmpeg; where the block reads
\* logStore.get() and the caller passed no logStore, the TypeError of that read
\* is what leaves the function.
DetailedError(hasLogStore, withLog) ==
    IF withLog /\ ~hasLogStore
    THEN Outcome("runFFmpeg", TRUE, "TypeError", <<"exec">>, FALSE, FALSE, Undefined)
    ELSE Outcome("runFFmpeg", TRUE, "engine", <<"exec">>, TRUE, withLog, Undefined)

\* runFFmpeg(ffmpeg, args, ui, logStore) in its three revisions. run.js and
\* part_004 await ffmpeg.exec and look at no status; ffmpeg-run.js throws on a
\* status other than 0. run.js puts the command in the error, the others the
\* command and logStore.get().
runFFmpeg(rev, engine, hasLogStore) ==
    IF engine = "throws" \/ (engine = "nonzero" /\ rev = "ffmpeg-run.js")
    THEN DetailedError(hasLogStore, rev # "run.js")
    ELSE Outcome("runFFmpeg", FALSE, "none", <<"exec">>, FALSE, FALSE, Undefined)

\* The common shape of a stage: fn ran the engine through run.js, outcome r.
Thrown(fn, r, cause, ops) ==
    Outcome(fn, TRUE, cause, ops, r.command, r.log, Undefined)

\* sanitize(ffmpeg, inputFile, workingDirectory, updateUI).
sanitize(engine, dir) ==
    LET r == runFFmpeg("run.js", engine, FALSE)
    IN IF r.threw THEN Thrown("sanitize", r, r.cause, <<"exec">>)
       ELSE IF dir = "throws" THEN Thrown("sanitize", r, "fs", <<"exec", "listDir">>)
       ELSE IF dir = "absent"
       THEN Thrown("sanitize", r, "postcondition", <<"exec", "listDir">>)
       ELSE Outcome("sanitize", FALSE, "none", <<"exec", "listDir">>, FALSE, FALSE,
                    Undefined)

\* What the log of the analyze command can hold.
LogKinds == {"duration and layout", "no duration", "no layout"}

\* analyze(ffmpeg, inputFile, updateUI, logStore): the duration is looked for
\* first, then the mono/stereo layout.
analyze(engine, logText) ==
    LET r == runFFmpeg("run.js", engine, FALSE)
    IN IF r.threw THEN Thrown("analyze", r, r.cause, <<"exec">>)
       ELSE IF logText # "duration and layout"
       THEN Thrown("analyze", r, "postcondition", <<"exec">>)
       ELSE Outcome("analyze", FALSE, "none", <<"exec">>, FALSE, FALSE, Undefined)

\* chunk(ffmpeg, inputFile, workingDirectory, updateUI): no chunk file is
\* listed afterwards (absent), or n of them; the value is their number.
chunk(engine, dir, n) ==
    LET r == runFFmpeg("run.js", engine, FALSE)
    IN IF r.threw THEN Thrown("chunk", r, r.cause, <<"exec">>)
       ELSE IF dir = "throws" THEN Thrown("chunk", r, "fs", <<"exec", "listDir">>)
       ELSE IF dir = "absent"
       THEN Thrown("chunk", r, "postcondition", <<"exec", "listDir">>)
       ELSE Outcome("chunk", FALSE, "none", <<"exec", "listDir">>, FALSE, FALSE, n)

\* concatenate(ffmpeg, processedFiles, metadata, workingDirectory, updateUI):
\* concat_list.txt is written first.
concatenate(written, engine, dir) ==
    LET r == runFFmpeg("run.js", engine, FALSE)
    IN IF ~written
       THEN Outcome("concatenate", TRUE, "fs", <<"writeFile">>, FALSE, FALSE, Undefined)
       ELSE IF r.threw THEN Thrown("concatenate", r, r.cause, <<"writeFile", "exec">>)
       ELSE IF dir = "throws"
       THEN Thrown("concatenate", r, "fs", <<"writeFile", "exec", "listDir">>)
       ELSE IF dir = "absent"
       THEN Thrown("concatenate", r, "postcondition", <<"writeFile", "exec", "listDir">>)
       ELSE Outcome("concatenate", FALSE, "none", <<"writeFile", "exec", "listDir">>,
                    FALSE, FALSE, Undefined)

\* The diagnostic text of the loudness analysis, as far as parseLoudness reads
\* it: a sequence of pieces, each an opening brace, a closing brace, other
\* text without braces (x), or the member list of a JSON object (body) with
\* the values it gives to the five fields; a field the list does not name
\* reads as "undefined".
NoBody ==
    [input_i |-> "undefined", input_tp |-> "undefined", input_lra |-> "undefined",
     input_thresh |-> "undefined", target_offset |-> "undefined"]

Piece(c) == [c |-> c, body |-> NoBody]

Members(b) == [c |-> "body", body |-> b]

JsonBodies ==
    {[input_i |-> "-27.61", input_tp |-> "-4.47", input_lra |-> "18.06",
      input_thresh |-> "-39.20", target_offset |-> "0.58"],
     [input_i |-> "-19.02", input_tp |-> "-1.10", input_lra |-> "6.30",
      input_thresh |-> "-29.55", target_offset |-> "-0.01"],
     [NoBody EXCEPT !.input_i = "-70.00"]}

LogPieces == {Piece("{"), Piece("}"), Piece("x")} \cup {Members(b) : b \in JsonBodies}

LogTexts == UNION {[1 .. n -> LogPieces] : n \in 0 .. MaxLogLen}

\* String.prototype.lastIndexOf for a one-piece pattern, on positions counted
\* from 1: 0 where JavaScript answers -1.
lastIndexOf(text, c) ==
    IF \E k \in DOMAIN text : text[k].c = c
    THEN CHOOSE k \in DOMAIN text :
             text[k].c = c /\ \A m \in DOMAIN text : text[m].c = c => m <= k
    ELSE 0

\* JSON.parse on a piece sequence: an object is an opening brace, at most one
\* member list, a closing brace; anything else is a SyntaxError.
JSONparse(s) ==
    IF Len(s) = 2 /\ s[1].c = "{" /\ s[2].c = "}"
    THEN [valid |-> TRUE, object |-> NoBody]
    ELSE IF Len(s) = 3 /\ s[1].c = "{" /\ s[2].c = "body" /\ s[3].c = "}"
    THEN [valid |-> TRUE, object |-> s[2].body]
    ELSE [valid |-> FALSE, object |-> NoBody]

NoLoudnessData ==
    [target_offset |-> "undefined", measured_I |-> "undefined",
     measured_TP |-> "undefined", measured_LRA |-> "undefined",
     measured_thresh |-> "undefined"]

\* Mutant of parseLoudness: the block starts at the first opening brace.
parseLoudnessFirstBrace(logText) ==
    LET jsonStart == IF \E k \in DOMAIN logText : logText[k].c = "{"
                     THEN CHOOSE k \in DOMAIN logText :
                              logText[k].c = "{" /\ \A m \in DOMAIN logText :
                                  logText[m].c = "{" => k <= m
                     ELSE 0
        jsonEnd == lastIndexOf(logText, "}")
        parsed == JSONparse(SubSeq(logText, jsonStart, jsonEnd))
    IN IF jsonStart = 0 \/ jsonEnd = 0 \/ jsonEnd < jsonStart
       THEN [thrown |-> TRUE, cause |-> "not found", data |-> NoLoudnessData]
       ELSE IF ~parsed.valid
       THEN [thrown |-> TRUE, cause |-> "not JSON", data |-> NoLoudnessData]
       ELSE [thrown |-> FALSE, cause |-> "none",
             data |-> [target_offset |-> parsed.object.target_offset,
                       measured_I |-> parsed.object.input_i,
                       measured_TP |-> parsed.object.input_tp,
                       measured_LRA |-> parsed.object.input_lra,
                       measured_thresh |-> parsed.object.input_thresh]]

\* parseLoudness(logText): the block from the last opening brace to the last
\* closing brace is parsed and its five fields are renamed.
parseLoudness(logText) ==
    LET jsonStart == lastIndexOf(logText, "{")
        jsonEnd == lastIndexOf(logText, "}")
        parsed == JSONparse(SubSeq(logText, jsonStart, jsonEnd))
    IN IF jsonStart = 0 \/ jsonEnd = 0 \/ jsonEnd < jsonStart
       THEN [thrown |-> TRUE, cause |-> "not found", data |-> NoLoudnessData]
       ELSE IF ~parsed.valid
       THEN [thrown |-> TRUE, cause |-> "not JSON", data |-> NoLoudnessData]
       ELSE [thrown |-> FALSE, cause |-> "none",
             data |-> [target_offset |-> parsed.object.target_offset,
                       measured_I |-> parsed.object.input_i,
                       measured_TP |-> parsed.object.input_tp,
                       measured_LRA |-> parsed.object.input_lra,
                       measured_thresh |-> parsed.object.input_thresh]]

\* analyzeLoudness(ffmpeg, inputFile, channelLayout, logStore): the engine
\* call, made with the logStore as fourth argument, then parseLoudness on the
\* text the logStore holds; both are inside one try block that rethrows.
analyzeLoudness(rev, engine, logText) ==
    LET r == runFFmpeg(rev, engine, TRUE)
        p == parseLoudness(logText)
    IN IF r.threw THEN Thrown("analyzeLoudness", r, r.cause, <<"exec">>)
       ELSE IF p.thrown THEN Thrown("analyzeLoudness", r, "parse", <<"exec">>)
       ELSE Outcome("analyzeLoudness", FALSE, "none", <<"exec">>, FALSE, FALSE,
                    p.data)

\* A normalizeLoudness that trusts the engine call and never lists the
\* working directory.
normalizeLoudnessTrusting(engine, dir) ==
    LET r == runFFmpeg("run.js", engine, FALSE)
    IN IF r.threw THEN Thrown("normalizeLoudness", r, r.cause, <<"exec">>)
       ELSE Outcome("normalizeLoudness", FALSE, "none", <<"exec">>,
                    FALSE, FALSE, Undefined)

\* normalizeLoudness(ffmpeg, inputFile, channelLayout, loudnessData, logStore):
\* the engine call and the check that <base>_norm.wav is listed.
normalizeLoudness(engine, dir) ==
    LET r == runFFmpeg("run.js", engine, FALSE)
    IN IF r.threw THEN Thrown("normalizeLoudness", r, r.cause, <<"exec">>)
       ELSE IF dir = "throws"
       THEN Thrown("normalizeLoudness", r, "fs", <<"exec", "listDir">>)
       ELSE IF dir = "absent"
       THEN Thrown("normalizeLoudness", r, "postcondition", <<"exec", "listDir">>)
       ELSE Outcome("normalizeLoudness", FALSE, "none", <<"exec", "listDir">>,
                    FALSE, FALSE, Undefined)

\* The texts that can follow "Overall.RMS_level=" in the report; the empty
\* text stands for a report without that line (the pattern needs one
\* character at least).
ReportTexts == {"-23.4", "0.000000", "-inf", "abc", ""}

\* A JavaScript number: NaN, or a value in tenths.
NaN == [nan |-> TRUE, tenths |-> 0]
Num(t) == [nan |-> FALSE, tenths |-> t]

\* parseFloat(text) on those texts: "-inf" is not a spelling parseFloat knows.
parseFloat(text) ==
    CASE text = "-23.4" -> Num(-234)
      [] text = "0.000000" -> Num(0)
      [] OTHER -> NaN

\* Mutant of parseRmsLevel: the result of parseFloat is returned as it is.
parseRmsLevelNoDefault(text) ==
    IF text = "" THEN [thrown |-> TRUE, level |-> NaN]
    ELSE [thrown |-> FALSE, level |-> parseFloat(text)]

\* parseRmsLevel(fileContent): `parseFloat(match[1]) || 0.00`, or an error
\* when the line is not found. thrown tells the two apart.
parseRmsLevel(text) ==
    IF text = "" THEN [thrown |-> TRUE, level |-> NaN]
    ELSE LET f == parseFloat(text)
         IN [thrown |-> FALSE,
             level |-> IF f.nan \/ f.tenths = 0 THEN Num(0) ELSE f]

\* Mutant of analyzeNormalized: the report is deleted after a successful parse
\* only, not in a finally block.
analyzeNormalizedDeletesOnSuccess(engine, dir, readable, text) ==
    LET r == runFFmpeg("run.js", engine, FALSE)
        parsed == parseRmsLevel(text)
    IN IF r.threw THEN Thrown("analyzeNormalized", r, r.cause, <<"exec">>)
       ELSE IF dir = "throws"
       THEN Thrown("analyzeNormalized", r, "fs", <<"exec", "listDir">>)
       ELSE IF dir = "absent"
       THEN Thrown("analyzeNormalized", r, "postcondition", <<"exec", "listDir">>)
       ELSE IF ~readable
       THEN Thrown("analyzeNormalized", r, "fs", <<"exec", "listDir", "readFile">>)
       ELSE IF parsed.thrown \/ parsed.level.nan
       THEN Thrown("analyzeNormalized", r, "parse", <<"exec", "listDir", "readFile">>)
       ELSE Outcome("analyzeNormalized", FALSE, "none",
                    <<"exec", "listDir", "readFile", "deleteFile report">>,
                    FALSE, FALSE, parsed.level.tenths)

\* analyzeNormalized(ffmpeg, normalizedFile, logStore): engine call, check that
\* the report is listed, readFile, parseRmsLevel, isNaN check; the finally
\* block calls deleteFile(rmsLogFile) and swallows its error.
analyzeNormalized(engine, dir, readable, text) ==
    LET r == runFFmpeg("run.js", engine, FALSE)
        parsed == parseRmsLevel(text)
        try ==
          IF r.threw THEN Thrown("analyzeNormalized", r, r.cause, <<"exec">>)
          ELSE IF dir = "throws"
          THEN Thrown("analyzeNormalized", r, "fs", <<"exec", "listDir">>)
          ELSE IF dir = "absent"
          THEN Thrown("analyzeNormalized", r, "postcondition", <<"exec", "listDir">>)
          ELSE IF ~readable
          THEN Thrown("analyzeNormalized", r, "fs", <<"exec", "listDir", "readFile">>)
          ELSE IF parsed.thrown \/ parsed.level.nan
          THEN Thrown("analyzeNormalized", r, "parse", <<"exec", "listDir", "readFile">>)
          ELSE Outcome("analyzeNormalized", FALSE, "none",
                       <<"exec", "listDir", "readFile">>, FALSE, FALSE,
                       parsed.level.tenths)
    IN [try EXCEPT !.ops = Append(@, "deleteFile report")]

\* The mastering options of the page: four checkboxes.
MasteringOptions == [gate : BOOLEAN, clarity : BOOLEAN, tonal : BOOLEAN, softClip : BOOLEAN]

\* The RMS levels analyzeNormalized can return, in tenths of a dB.
RmsLevels == {parseRmsLevel(t).level.tenths : t \in ReportTexts \ {""}}

\* One stage of a filter chain: the filter with its frequency where it has
\* one, and the parameter that tells the stages apart, in tenths (threshold,
\* limit or gain; for agate the threshold in dB before it is made linear).
Stage(filter, param) == [filter |-> filter, param |-> param]

\* Mutant of masteringFilters: the clarity stage is pushed before the gate.
masteringFiltersClarityFirst(rmsLevel, options) ==
    <<Stage("adynamicequalizer 350", rmsLevel + 30),
      Stage("adynamicequalizer 7000", 220),
      Stage("alimiter", 9)>>
    \o (IF options.clarity THEN <<Stage("equalizer 8000", 30)>> ELSE <<>>)
    \o (IF options.gate THEN <<Stage("agate", rmsLevel - 180)>> ELSE <<>>)
    \o (IF options.tonal
        THEN <<Stage("equalizer 92", 10), Stage("equalizer 185", 10),
               Stage("equalizer 5920", 15)>>
        ELSE <<>>)
    \o (IF options.softClip THEN <<Stage("asoftclip", 0)>> ELSE <<>>)

\* masteringFilters as masterEncode builds it: three fixed stages are pushed,
\* then one push or three for every option that is set.
masteringFilters(rmsLevel, options) ==
    <<Stage("adynamicequalizer 350", rmsLevel + 30),
      Stage("adynamicequalizer 7000", 220),
      Stage("alimiter", 9)>>
    \o (IF options.gate THEN <<Stage("agate", rmsLevel - 180)>> ELSE <<>>)
    \o (IF options.clarity THEN <<Stage("equalizer 8000", 30)>> ELSE <<>>)
    \o (IF options.tonal
        THEN <<Stage("equalizer 92", 10), Stage("equalizer 185", 10),
               Stage("equalizer 5920", 15)>>
        ELSE <<>>)
    \o (IF options.softClip THEN <<Stage("asoftclip", 0)>> ELSE <<>>)

\* Mutant of masterEncode: the normalized file is deleted only when the
\* engine call returned, not in a finally block.
masterEncodeDeletesAfterExec(engine, dir) ==
    LET r == runFFmpeg("run.js", engine, FALSE)
    IN IF r.threw THEN Thrown("masterEncode", r, r.cause, <<"exec">>)
       ELSE IF dir = "throws"
       THEN Thrown("masterEncode", r, "fs",
                   <<"exec", "listDir", "deleteFile normalized">>)
       ELSE IF dir = "absent"
       THEN Thrown("masterEncode", r, "postcondition",
                   <<"exec", "listDir", "deleteFile normalized">>)
       ELSE Outcome("masterEncode", FALSE, "none",
                    <<"exec", "listDir", "deleteFile normalized">>,
                    FALSE, FALSE, Undefined)

\* masterEncode(ffmpeg, normalizedFile, rmsLevel, options, logStore): engine
\* call and the check that <base>_mastered.mp3 is listed; the finally block
\* calls deleteFile(normalizedFile) and swallows its error.
masterEncode(engine, dir) ==
    LET r == runFFmpeg("run.js", engine, FALSE)
        try ==
          IF r.threw THEN Thrown("masterEncode", r, r.cause, <<"exec">>)
          ELSE IF dir = "throws"
          THEN Thrown("masterEncode", r, "fs", <<"exec", "listDir">>)
          ELSE IF dir = "absent"
          THEN Thrown("masterEncode", r, "postcondition", <<"exec", "listDir">>)
          ELSE Outcome("masterEncode", FALSE, "none", <<"exec", "listDir">>,
                       FALSE, FALSE, Undefined)
    IN [try EXCEPT !.ops = Append(@, "deleteFile normalized")]

(* ------------- the unit's process command, with its data --------------- *)
\* The channel layouts analyze can report.
ChannelLayouts == {"mono", "stereo"}

\* What the engine measures in audio: the object the loudnorm filter prints
\* for it, and the text astats writes after "Overall.RMS_level=". Audio is
\* written down as the number of the process command whose chunkData it comes
\* from; the first chunk is ordinary speech, the later ones are digital
\* silence.
LoudnessOf(audio) ==
    IF audio = 1
    THEN [input_i |-> "-27.61", input_tp |-> "-4.47", input_lra |-> "18.06",
          input_thresh |-> "-39.20", target_offset |-> "0.58"]
    ELSE [NoBody EXCEPT !.input_i = "-70.00"]

RmsTextOf(audio) == IF audio = 1 THEN "-23.4" ELSE "-inf"

\* One stage of the loudness filter chains, with its argument.
Filter(name, arg) == [name |-> name, arg |-> arg]

NoFilters ==
    [leading |-> <<>>,
     loudnorm |-> [NoLoudnessData EXCEPT !.target_offset = "none"]]

\* loudnessAnalysisFilter of analyzeLoudness: initialFilters, then loudnorm
\* with the targets and print_format=json (no measured value).
loudnessAnalysisFilter(channelLayout) ==
    [leading |-> <<Filter("aformat=channel_layouts", channelLayout),
                   Filter("highpass=f", "HIGH_PASS_FREQ_HZ"),
                   Filter("afftdn=nf", "NOISE_FLOOR_DBFS"),
                   Filter("deesser", "")>>,
     loudnorm |-> NoLoudnessData]

\* loudnessCorrectionFilter of normalizeLoudness: its own initialFilters, then
\* loudnorm with the targets, measured_I, measured_TP, measured_LRA,
\* measured_thresh and offset taken from loudnessData.
loudnessCorrectionFilter(channelLayout, loudnessData) ==
    [leading |-> <<Filter("aformat=channel_layouts", channelLayout),
                   Filter("highpass=f", "HIGH_PASS_FREQ_HZ"),
                   Filter("afftdn=nf", "NOISE_FLOOR_DBFS"),
                   Filter("deesser", "")>>,
     loudnorm |-> [target_offset |-> loudnessData.target_offset,
                   measured_I |-> loudnessData.measured_I,
                   measured_TP |-> loudnessData.measured_TP,
                   measured_LRA |-> loudnessData.measured_LRA,
                   measured_thresh |-> loudnessData.measured_thresh]]

\* The files of /work. A file is its kind ("chunk": chunk_NNNN.wav, "norm":
\* chunk_NNNN_norm.wav, "rms": chunk_NNNN_rms.txt, "mastered":
\* chunk_NNNN_mastered.mp3), the chunkIndex in its name and the audio it holds
\* or was measured from.
Named(files, kind, index) == {f \in files : f.kind = kind /\ f.index = index}

ContentOf(files, kind, index) == (CHOOSE f \in Named(files, kind, index) : TRUE).content

\* ffmpeg.writeFile, and an output the engine writes: a file of that name is
\* replaced.
WriteFile(files, kind, index, content) ==
    (files \ Named(files, kind, index))
        \cup {[kind |-> kind, index |-> index, content |-> content]}

\* ffmpeg.deleteFile.
DeleteFile(files, kind, index) == files \ Named(files, kind, index)

\* ffmpeg.exec: a call that ends with status 0 has written its output from
\* its input; a call that rejects or ends with another status has written
\* nothing.
Exec(engine, files, from, to, index) ==
    IF engine = "zero"
    THEN WriteFile(files, to, index, ContentOf(files, from, index))
    ELSE files

\* ffmpeg.listDir('/work') and the search for one name in it.
ListDir(rejects, files, kind, index) ==
    IF rejects THEN "throws"
    ELSE IF Named(files, kind, index) # {} THEN "listed"
    ELSE "absent"

\* The lines the engine logs (to logStore.append) during the loudness
\* analysis of audio: the measured object when the call ends with status 0,
\* an error line otherwise.
LogOf(engine, audio) ==
    IF engine = "zero"
    THEN <<Piece("x"), Piece("{"), Members(LoudnessOf(audio)), Piece("}")>>
    ELSE <<Piece("x")>>

\* The module scope of the unit script before the first process command:
\* logStore.logs, the files of /work, and the locals of the process command in
\* hand (pc is the await it stands at). served counts the process commands
\* received; posted is the terminal message the command in hand has sent.
IdleScope ==
    [pc |-> "idle", served |-> 0, logs |-> <<>>, files |-> {},
     chunkIndex |-> Undefined, chunkData |-> 0, channelLayout |-> "none",
     masteringOptions |-> NoInput.options,
     loudnessData |-> NoLoudnessData,
     analysisFilter |-> NoFilters, correctionFilter |-> NoFilters,
     rmsLevel |-> 0, filters |-> <<>>, posted |-> "none", processedData |-> 0]

(* ------------------------------ Init ----------------------------------- *)
\* The state after new WorkerPool(script, poolSize): _createWorkers has run.
Init ==
    /\ variant \in Variants
    /\ script \in Scripts
    /\ poolSize \in 1 .. MaxPoolSize
    /\ workers = [i \in 1 .. poolSize |-> i - 1]
    /\ isBusy = [u \in Units |-> FALSE]
    /\ onmessage = [u \in Units |-> "none"]
    /\ onerror = [u \in Units |-> "handleWorkerError"]
    /\ jobQueue = <<>>
    /\ activeJobs = [c \in ChunkIndexes |-> NoJob]
    /\ workerState = [u \in Units |-> Undefined]
    /\ initPromise = "none"
    /\ readyCount = 0
    /\ readySeen = {}
    /\ jobs = <<>>
    /\ future = <<>>
    /\ sent = <<>>
    /\ waited = {}
    /\ progressSink = NoProgress
    /\ inbox = [u \in Units |-> <<>>]
    /\ outbox = [u \in Units |-> <<>>]
    /\ errEvent = [u \in Units |-> FALSE]
    /\ unit = [u \in Units |-> FreshUnit]
    /\ crashes = 0
    /\ opc = "idle"
    /\ chunkCount = 0
    /\ runJobs = [c \in ChunkIndexes |-> NoJob]
    /\ processedResults = <<>>
    /\ processedFiles = <<>>
    /\ result = "none"
    /\ cleanupPaths = {}
    /\ created = {}
    /\ deleted = {}
    /\ call = NoCall
    /\ workerScope = IdleScope

(* --------------------------- WorkerPool -------------------------------- *)
\* initialize(): called by the application in the same synchronous block as
\* the constructor, so it is the first thing that happens.
initialize ==
    /\ initPromise = "none"
    /\ initPromise' = "pending"
    /\ readyCount' = 0
    /\ onmessage' = [u \in Units |-> "initHandler"]
    /\ onerror' = IF variant = "v21" THEN onerror
                  ELSE [u \in Units |-> "initOnError"]
    /\ inbox' = [u \in Units |-> Append(inbox[u], InitCmd)]
    /\ UNCHANGED <<variant, script, poolSize, workers, isBusy, jobQueue, activeJobs,
                   workerState, readySeen, jobVars, outbox, errEvent, unit,
                   crashes, orchVars>>
    /\ progressSink' = NoProgress
    /\ UNCHANGED <<call, workerScope>>

\* this.workers.find(w => !w.isBusy): the first such unit in array order.
AvailableWorker ==
    LET free == {i \in 1 .. Len(workers) : ~isBusy[workers[i]]}
    IN IF free = {} THEN Undefined
       ELSE workers[CHOOSE i \in free : \A k \in free : i <= k]

\* Mutant of assignJob: the unit is not marked busy.
assignJobNotBusy(worker, j, c, busy0, active0, state0, sent0) ==
    /\ isBusy' = busy0
    /\ activeJobs' = [active0 EXCEPT ![c] = j]
    /\ workerState' = [state0 EXCEPT ![worker] = c]
    /\ inbox' = [inbox EXCEPT ![worker] = Append(@, ProcessCmd(j, c))]
    /\ sent' = [sent0 EXCEPT ![j] = Append(@, worker)]

\* _assignJob(worker, job j with chunkIndex c), applied to the given values of
\* the pool's fields (the caller may have changed them in the same handler).
assignJob(worker, j, c, busy0, active0, state0, sent0) ==
    /\ isBusy' = [busy0 EXCEPT ![worker] = TRUE]
    /\ activeJobs' = [active0 EXCEPT ![c] = j]
    /\ workerState' = [state0 EXCEPT ![worker] = c]
    /\ inbox' = [inbox EXCEPT ![worker] = Append(@, ProcessCmd(j, c))]
    /\ sent' = [sent0 EXCEPT ![j] = Append(@, worker)]

\* Mutant of dispatch: a job given to a free unit is pushed to the queue too.
dispatchAlsoQueues(chunkIndex) ==
    LET j == Len(jobs) + 1
        w == AvailableWorker
    IN /\ jobs' = Append(jobs, chunkIndex)
       /\ future' = Append(future, PendingFuture)
       /\ jobQueue' = Append(jobQueue, j)
       /\ waited' = waited \cup {j}
       /\ IF w # Undefined
          THEN assignJob(w, j, chunkIndex, isBusy, activeJobs, workerState,
                         Append(sent, <<>>))
          ELSE /\ sent' = Append(sent, <<>>)
               /\ UNCHANGED <<isBusy, activeJobs, workerState, inbox>>

\* dispatch(message, transfer, onProgress) for a new job with this chunkIndex;
\* the job gets the next job id.
dispatch(chunkIndex) ==
    LET j == Len(jobs) + 1
        w == AvailableWorker
    IN /\ jobs' = Append(jobs, chunkIndex)
       /\ future' = Append(future, PendingFuture)
       /\ IF w # Undefined
          THEN /\ assignJob(w, j, chunkIndex, isBusy, activeJobs, workerState,
                            Append(sent, <<>>))
               /\ UNCHANGED <<jobQueue, waited>>
          ELSE /\ jobQueue' = Append(jobQueue, j)
               /\ waited' = waited \cup {j}
               /\ sent' = Append(sent, <<>>)
               /\ UNCHANGED <<isBusy, activeJobs, workerState, inbox>>

\* Mutant of assignNext: freeing the unit clears every pending record
\* (activeJobs.clear() instead of activeJobs.delete(chunkIndex)).
assignNextClearsRecords(worker, busy0, active0, state0) ==
    IF jobQueue # <<>>
    THEN /\ jobQueue' = Tail(jobQueue)
         /\ assignJob(worker, Head(jobQueue), jobs[Head(jobQueue)],
                      busy0, [c \in ChunkIndexes |-> NoJob], state0, sent)
    ELSE /\ jobQueue' = jobQueue
         /\ isBusy' = busy0
         /\ activeJobs' = [c \in ChunkIndexes |-> NoJob]
         /\ workerState' = state0
         /\ UNCHANGED <<inbox, sent>>

\* Mutant of assignNext: the unit is freed and the waiting jobs are dropped
\* (the queue is cancelled instead of served).
assignNextDropsQueue(worker, busy0, active0, state0) ==
    /\ jobQueue' = <<>>
    /\ isBusy' = busy0
    /\ activeJobs' = active0
    /\ workerState' = state0
    /\ UNCHANGED <<inbox, sent>>

\* Mutant of assignNext: the newest queued job is taken (pop instead of shift).
assignNextNewest(worker, busy0, active0, state0) ==
    IF jobQueue # <<>>
    THEN /\ jobQueue' = SubSeq(jobQueue, 1, Len(jobQueue) - 1)
         /\ assignJob(worker, jobQueue[Len(jobQueue)], jobs[jobQueue[Len(jobQueue)]],
                      busy0, active0, state0, sent)
    ELSE /\ jobQueue' = jobQueue
         /\ isBusy' = busy0
         /\ activeJobs' = active0
         /\ workerState' = state0
         /\ UNCHANGED <<inbox, sent>>

\* The tail of _handleWorkerMessage and of the replacement's ready handler:
\* const nextJob = this.jobQueue.shift(); if (nextJob) this._assignJob(worker, nextJob).
assignNext(worker, busy0, active0, state0) ==
    IF jobQueue # <<>>
    THEN /\ jobQueue' = Tail(jobQueue)
         /\ assignJob(worker, Head(jobQueue), jobs[Head(jobQueue)],
                      busy0, active0, state0, sent)
    ELSE /\ jobQueue' = jobQueue
         /\ isBusy' = busy0
         /\ activeJobs' = active0
         /\ workerState' = state0
         /\ UNCHANGED <<inbox, sent>>

\* Mutant of initHandler: the first ready message resolves initialize().
initHandlerFirstReady(worker, data) ==
    /\ IF data.status = "ready"
       THEN /\ readyCount' = readyCount + 1
            /\ readySeen' = readySeen \cup {worker}
            /\ onmessage' = [u \in Units |-> "handleWorkerMessage"]
            /\ initPromise' = SettleInit(initPromise, "resolved")
       ELSE /\ UNCHANGED <<readyCount, readySeen, onmessage>>
            /\ IF data.status = "error" \/ variant # "v21"
               THEN initPromise' = SettleInit(initPromise, "rejected")
               ELSE UNCHANGED initPromise
    /\ progressSink' = NoProgress
    /\ UNCHANGED <<variant, script, poolSize, workers, isBusy, onerror, jobQueue,
                   activeJobs, workerState, jobVars, inbox>>

\* The onmessage handler that initialize() installs on every unit.
initHandler(worker, data) ==
    /\ IF data.status = "ready"
       THEN /\ readyCount' = readyCount + 1
            /\ readySeen' = readySeen \cup {worker}
            /\ IF readyCount + 1 = poolSize
               THEN /\ onmessage' = [u \in Units |-> "handleWorkerMessage"]
                    /\ initPromise' = SettleInit(initPromise, "resolved")
               ELSE UNCHANGED <<onmessage, initPromise>>
       ELSE /\ UNCHANGED <<readyCount, readySeen, onmessage>>
            /\ IF data.status = "error" \/ variant # "v21"
               THEN initPromise' = SettleInit(initPromise, "rejected")
               ELSE UNCHANGED initPromise
    /\ progressSink' = NoProgress
    /\ UNCHANGED <<variant, script, poolSize, workers, isBusy, onerror, jobQueue,
                   activeJobs, workerState, jobVars, inbox>>

\* Mutant of handleWorkerMessage: the progress branch forwards the message but
\* does not return, so the handler falls through to the completion code.
handleWorkerMessageFallsThrough(worker, data) ==
    LET job == IF data.chunkIndex \in ChunkIndexes THEN activeJobs[data.chunkIndex]
               ELSE NoJob
    IN /\ UNCHANGED <<variant, script, poolSize, workers, onmessage, onerror, initPromise,
                      readyCount, readySeen, jobs, waited>>
       /\ IF job = NoJob
          THEN /\ progressSink' = NoProgress
               /\ UNCHANGED <<isBusy, jobQueue, activeJobs, workerState, future,
                              sent, inbox>>
          ELSE /\ future' = [future EXCEPT ![job] =
                      IF data.status = "success"
                      THEN Resolve(@, data.chunkIndex, data.data)
                      ELSE Reject(@, "reported", Undefined, data.chunkIndex)]
               /\ assignNext(worker,
                             [isBusy EXCEPT ![worker] = FALSE],
                             [activeJobs EXCEPT ![data.chunkIndex] = NoJob],
                             [workerState EXCEPT ![worker] = Undefined])
               /\ progressSink' = IF data.status = "progress"
                                  THEN [workerId |-> worker,
                                        chunkIndex |-> data.chunkIndex,
                                        message |-> data.message]
                                  ELSE NoProgress

\* Mutant of handleWorkerMessage: a reported failure is retried silently, the
\* command is posted to the same unit again and the future is left pending.
handleWorkerMessageRetries(worker, data) ==
    LET job == IF data.chunkIndex \in ChunkIndexes THEN activeJobs[data.chunkIndex]
               ELSE NoJob
    IN /\ UNCHANGED <<variant, script, poolSize, workers, onmessage, onerror, initPromise,
                      readyCount, readySeen, jobs, waited>>
       /\ IF job = NoJob
          THEN /\ progressSink' = NoProgress
               /\ UNCHANGED <<isBusy, jobQueue, activeJobs, workerState, future,
                              sent, inbox>>
          ELSE IF data.status = "progress"
          THEN /\ progressSink' = [workerId |-> worker, chunkIndex |-> data.chunkIndex,
                                    message |-> data.message]
               /\ UNCHANGED <<isBusy, jobQueue, activeJobs, workerState, future,
                              sent, inbox>>
          ELSE IF data.status = "error"
          THEN /\ inbox' = [inbox EXCEPT ![worker] =
                               Append(@, ProcessCmd(job, data.chunkIndex))]
               /\ sent' = [sent EXCEPT ![job] = Append(@, worker)]
               /\ progressSink' = NoProgress
               /\ UNCHANGED <<isBusy, jobQueue, activeJobs, workerState, future>>
          ELSE /\ future' = [future EXCEPT ![job] = Resolve(@, data.chunkIndex, data.data)]
               /\ assignNext(worker,
                             [isBusy EXCEPT ![worker] = FALSE],
                             [activeJobs EXCEPT ![data.chunkIndex] = NoJob],
                             [workerState EXCEPT ![worker] = Undefined])
               /\ progressSink' = NoProgress

\* Mutant of handleWorkerMessage: the unit's busy flag is not cleared.
handleWorkerMessageStaysBusy(worker, data) ==
    LET job == IF data.chunkIndex \in ChunkIndexes THEN activeJobs[data.chunkIndex]
               ELSE NoJob
    IN /\ UNCHANGED <<variant, script, poolSize, workers, onmessage, onerror, initPromise,
                      readyCount, readySeen, jobs, waited>>
       /\ IF job = NoJob
          THEN /\ progressSink' = NoProgress
               /\ UNCHANGED <<isBusy, jobQueue, activeJobs, workerState, future,
                              sent, inbox>>
          ELSE IF data.status = "progress"
          THEN /\ progressSink' = [workerId |-> worker, chunkIndex |-> data.chunkIndex,
                                    message |-> data.message]
               /\ UNCHANGED <<isBusy, jobQueue, activeJobs, workerState, future,
                              sent, inbox>>
          ELSE /\ future' = [future EXCEPT ![job] =
                      IF data.status = "success"
                      THEN Resolve(@, data.chunkIndex, data.data)
                      ELSE Reject(@, "reported", Undefined, data.chunkIndex)]
               /\ assignNext(worker, isBusy,
                             [activeJobs EXCEPT ![data.chunkIndex] = NoJob],
                             [workerState EXCEPT ![worker] = Undefined])
               /\ progressSink' = NoProgress

\* Mutant of handleWorkerMessage: without the `if (!job) return`, a terminal
\* message that matches no pending record still frees the unit and serves the
\* queue.
handleWorkerMessageNoGuard(worker, data) ==
    LET job == IF data.chunkIndex \in ChunkIndexes THEN activeJobs[data.chunkIndex]
               ELSE NoJob
    IN /\ UNCHANGED <<variant, script, poolSize, workers, onmessage, onerror, initPromise,
                      readyCount, readySeen, jobs, waited>>
       /\ IF data.status = "progress"
          THEN /\ progressSink' = IF job = NoJob THEN NoProgress
                                  ELSE [workerId |-> worker,
                                        chunkIndex |-> data.chunkIndex,
                                        message |-> data.message]
               /\ UNCHANGED <<isBusy, jobQueue, activeJobs, workerState, future,
                              sent, inbox>>
          ELSE /\ future' = IF job = NoJob THEN future
                            ELSE [future EXCEPT ![job] =
                                    IF data.status = "success"
                                    THEN Resolve(@, data.chunkIndex, data.data)
                                    ELSE Reject(@, "reported", Undefined, data.chunkIndex)]
               /\ assignNext(worker,
                             [isBusy EXCEPT ![worker] = FALSE],
                             IF job = NoJob THEN activeJobs
                             ELSE [activeJobs EXCEPT ![data.chunkIndex] = NoJob],
                             [workerState EXCEPT ![worker] = Undefined])
               /\ progressSink' = NoProgress

\* _handleWorkerMessage(worker, data)
handleWorkerMessage(worker, data) ==
    LET job == IF data.chunkIndex \in ChunkIndexes THEN activeJobs[data.chunkIndex]
               ELSE NoJob
    IN /\ UNCHANGED <<variant, script, poolSize, workers, onmessage, onerror, initPromise,
                      readyCount, readySeen, jobs, waited>>
       /\ IF job = NoJob
          THEN /\ progressSink' = NoProgress
               /\ UNCHANGED <<isBusy, jobQueue, activeJobs, workerState, future,
                              sent, inbox>>
          ELSE IF data.status = "progress"
          THEN /\ progressSink' = [workerId |-> worker, chunkIndex |-> data.chunkIndex,
                                    message |-> data.message]
               /\ UNCHANGED <<isBusy, jobQueue, activeJobs, workerState, future,
                              sent, inbox>>
          ELSE /\ future' = [future EXCEPT ![job] =
                      IF data.status = "success"
                      THEN Resolve(@, data.chunkIndex, data.data)
                      ELSE Reject(@, "reported", Undefined, data.chunkIndex)]
               /\ assignNext(worker,
                             [isBusy EXCEPT ![worker] = FALSE],
                             [activeJobs EXCEPT ![data.chunkIndex] = NoJob],
                             [workerState EXCEPT ![worker] = Undefined])
               /\ progressSink' = NoProgress

\* _replaceWorker(workerId) of the resilient revision: the old Worker is
\* terminated (its pending messages and events are dropped) and a new Worker
\* object, which has no isBusy property yet, takes its slot and is sent init.
replaceWorker(workerId) ==
    IF \E i \in 1 .. Len(workers) : workers[i] = workerId
    THEN /\ isBusy' = [isBusy EXCEPT ![workerId] = FALSE]
         /\ onerror' = [onerror EXCEPT ![workerId] = "handleWorkerError"]
         /\ onmessage' = [onmessage EXCEPT ![workerId] = "replaceHandler"]
         /\ inbox' = [inbox EXCEPT ![workerId] = <<InitCmd>>]
         /\ outbox' = [outbox EXCEPT ![workerId] = <<>>]
         /\ unit' = [unit EXCEPT ![workerId] = FreshUnit]
    ELSE UNCHANGED <<isBusy, onerror, onmessage, inbox, outbox, unit>>

\* The onmessage handler _replaceWorker installs on the replacement.
replaceHandler(worker, data) ==
    /\ progressSink' = NoProgress
    /\ UNCHANGED <<variant, script, poolSize, workers, onerror, initPromise, readyCount,
                   readySeen, jobs, future, waited>>
    /\ IF data.status = "ready"
       THEN /\ onmessage' = [onmessage EXCEPT ![worker] = "handleWorkerMessage"]
            /\ assignNext(worker, isBusy, activeJobs, workerState)
       ELSE UNCHANGED <<onmessage, isBusy, jobQueue, activeJobs, workerState,
                        inbox, sent>>

\* Mutant of handleWorkerError: the pending record of the rejected job is kept.
handleWorkerErrorKeepsRecord(worker) ==
    LET chunkIndex == workerState[worker]
        job == IF chunkIndex # Undefined THEN activeJobs[chunkIndex] ELSE NoJob
    IN /\ UNCHANGED <<variant, script, poolSize, workers, jobQueue, initPromise,
                      readyCount, readySeen, jobs, sent, waited, activeJobs>>
       /\ IF job # NoJob
          THEN future' = [future EXCEPT ![job] = Reject(@, "crash", worker, chunkIndex)]
          ELSE UNCHANGED future
       /\ IF variant = "resilient"
          THEN /\ workerState' = [workerState EXCEPT ![worker] = Undefined]
               /\ replaceWorker(worker)
          ELSE UNCHANGED <<workerState, isBusy, onerror, onmessage, inbox,
                           outbox, unit>>

\* _handleWorkerError(worker, error): the three revisions. In v21 the lookup of
\* worker.rejectPromise finds nothing (no code sets it), so the promise of
\* initialize() is left alone.
handleWorkerError(worker) ==
    LET chunkIndex == workerState[worker]
        job == IF chunkIndex # Undefined THEN activeJobs[chunkIndex] ELSE NoJob
    IN /\ UNCHANGED <<variant, script, poolSize, workers, jobQueue, initPromise,
                      readyCount, readySeen, jobs, sent, waited>>
       /\ IF job # NoJob
          THEN /\ future' = [future EXCEPT ![job] =
                                Reject(@, "crash", worker, chunkIndex)]
               /\ activeJobs' = [activeJobs EXCEPT ![chunkIndex] = NoJob]
          ELSE UNCHANGED <<future, activeJobs>>
       /\ IF variant = "resilient"
          THEN /\ workerState' = [workerState EXCEPT ![worker] = Undefined]
               /\ replaceWorker(worker)
          ELSE UNCHANGED <<workerState, isBusy, onerror, onmessage, inbox,
                           outbox, unit>>

\* The onerror handler that initialize() installs in the resilient and plain
\* revisions; it is never taken off again.
initOnError(worker) ==
    /\ initPromise' = SettleInit(initPromise, "rejected")
    /\ UNCHANGED <<variant, script, poolSize, workers, isBusy, onmessage, onerror,
                   jobQueue, activeJobs, workerState, readyCount, readySeen,
                   jobVars, inbox, outbox, unit>>

\* Mutant of terminate: only the units that are not busy are stopped.
terminateIdleOnly ==
    /\ initPromise = "resolved"
    /\ workers' = <<>>
    /\ inbox' = [u \in Units |-> IF isBusy[u] THEN inbox[u] ELSE <<>>]
    /\ outbox' = [u \in Units |-> IF isBusy[u] THEN outbox[u] ELSE <<>>]
    /\ errEvent' = [u \in Units |-> IF isBusy[u] THEN errEvent[u] ELSE FALSE]
    /\ unit' = [u \in Units |-> IF isBusy[u] THEN unit[u]
                  ELSE [alive |-> FALSE, isInitialized |-> FALSE, tasks |-> {}]]
    /\ UNCHANGED <<variant, script, poolSize, isBusy, onmessage, onerror, jobQueue,
                   activeJobs, workerState, initPromise, readyCount, readySeen,
                   jobVars, crashes, orchVars>>
    /\ progressSink' = NoProgress
    /\ UNCHANGED <<call, workerScope>>

\* terminate(): registered for beforeunload once the application is ready.
terminate ==
    /\ initPromise = "resolved"
    /\ workers' = <<>>
    /\ inbox' = [u \in Units |-> <<>>]
    /\ outbox' = [u \in Units |-> <<>>]
    /\ errEvent' = [u \in Units |-> FALSE]
    /\ unit' = [u \in Units |-> [alive |-> FALSE, isInitialized |-> FALSE, tasks |-> {}]]
    /\ UNCHANGED <<variant, script, poolSize, isBusy, onmessage, onerror, jobQueue,
                   activeJobs, workerState, initPromise, readyCount, readySeen,
                   jobVars, crashes, orchVars>>
    /\ progressSink' = NoProgress
    /\ UNCHANGED <<call, workerScope>>

RunChunks == 0 .. (chunkCount - 1)

\* Mutant of Fail: a catch block that cleans up and returns no error.
FailReturnsNoError(paths, made) ==
    /\ opc' = "done"
    /\ result' = "none"
    /\ cleanupPaths' = paths
    /\ created' = made
    /\ deleted' = paths

\* The catch block of runMasteringPipelineParallel: an error thrown in the try
\* block lands here with cleanupPaths holding paths and the run having created
\* made; cleanup() calls deleteFile for every path of cleanupPaths, swallowing
\* errors, and the error result is returned.
Fail(paths, made) ==
    /\ opc' = "done"
    /\ result' = "error"
    /\ cleanupPaths' = paths
    /\ created' = made
    /\ deleted' = paths

\* Mutant of PromiseAll: the join goes on as soon as one chunk future is
\* resolved (Promise.any).
PromiseAny ==
    IF opc = "join" /\ \E i \in RunChunks :
           runJobs[i] # NoJob /\ future'[runJobs[i]].state = "resolved"
    THEN /\ opc' = "assemble"
         /\ processedResults' = [k \in 1 .. chunkCount |->
                [chunkIndex |-> k - 1, processedData |-> NoJob]]
         /\ UNCHANGED <<chunkCount, runJobs, processedFiles, result,
                        cleanupPaths, created, deleted>>
    ELSE UNCHANGED orchVars

\* Mutant of PromiseAll: the join waits until every chunk future is settled
\* and goes on with whatever the futures hold (Promise.allSettled).
PromiseAllSettled ==
    IF opc = "join" /\ \A i \in RunChunks :
           runJobs[i] # NoJob /\ future'[runJobs[i]].state # "pending"
    THEN /\ opc' = "assemble"
         /\ processedResults' = [k \in 1 .. chunkCount |->
                [chunkIndex |-> k - 1,
                 processedData |-> future'[runJobs[k - 1]].data]]
         /\ UNCHANGED <<chunkCount, runJobs, processedFiles, result,
                        cleanupPaths, created, deleted>>
    ELSE UNCHANGED orchVars

\* The continuation of `await Promise.all(processingPromises)`. It is a
\* microtask of the handler that settled a chunk future, so it runs before the
\* page handles any other event: it is part of that handler's step.
\* A rejected chunk future throws into the catch block, which cleans up and
\* returns the error result; when every chunk future is resolved the values
\* come in the order of processingPromises, which is the order of chunkFiles.
PromiseAll ==
    IF opc = "join" /\ \E i \in RunChunks :
           runJobs[i] # NoJob /\ future'[runJobs[i]].state = "rejected"
    THEN /\ Fail(cleanupPaths, created)
         /\ UNCHANGED <<chunkCount, runJobs, processedResults, processedFiles>>
    ELSE IF opc = "join" /\ \A i \in RunChunks :
           runJobs[i] # NoJob /\ future'[runJobs[i]].state = "resolved"
    THEN /\ opc' = "assemble"
         /\ processedResults' = [k \in 1 .. chunkCount |->
                [chunkIndex |-> future'[runJobs[k - 1]].chunkIndex,
                 processedData |-> future'[runJobs[k - 1]].data]]
         /\ UNCHANGED <<chunkCount, runJobs, processedFiles, result,
                        cleanupPaths, created, deleted>>
    ELSE UNCHANGED orchVars

(* ----------------------- event loop of the page ------------------------ *)
\* A message of unit u reaches worker.onmessage.
DeliverMessage(u) ==
    /\ outbox[u] # <<>>
    /\ outbox' = [outbox EXCEPT ![u] = Tail(@)]
    /\ CASE onmessage[u] = "initHandler" -> initHandler(u, Head(outbox[u]))
         [] onmessage[u] = "handleWorkerMessage" -> handleWorkerMessage(u, Head(outbox[u]))
         [] onmessage[u] = "replaceHandler" -> replaceHandler(u, Head(outbox[u]))
         [] OTHER -> progressSink' = NoProgress /\ UNCHANGED <<poolVars, jobVars, inbox>>
    /\ PromiseAll
    /\ UNCHANGED <<errEvent, unit, crashes>>
    /\ UNCHANGED <<call, workerScope>>

\* An error event of unit u reaches worker.onerror.
DeliverError(u) ==
    /\ errEvent[u]
    /\ errEvent' = [errEvent EXCEPT ![u] = FALSE]
    /\ IF onerror[u] = "handleWorkerError"
       THEN handleWorkerError(u)
       ELSE initOnError(u)
    /\ PromiseAll
    /\ UNCHANGED crashes
    /\ progressSink' = NoProgress
    /\ UNCHANGED <<call, workerScope>>

(* --------------------------- execution unit ---------------------------- *)
Post(u, m) == outbox' = [outbox EXCEPT ![u] = Append(@, m)]

\* self.onmessage of the unit up to its first await. In worker.js the process
\* branch reads `processData`, a name the script never declares: the
\* destructuring throws a ReferenceError outside the try block.
UnitReceive(u) ==
    /\ unit[u].alive
    /\ inbox[u] # <<>>
    /\ inbox' = [inbox EXCEPT ![u] = Tail(@)]
    /\ LET cmd == Head(inbox[u])
       IN IF cmd.command = "init"
          THEN /\ unit' = [unit EXCEPT ![u].tasks = @ \cup {InitTask}]
               /\ UNCHANGED outbox
          ELSE IF ~unit[u].isInitialized
          THEN /\ Post(u, Msg("error", Undefined, NoJob, 0))
               /\ UNCHANGED unit
          ELSE IF script = "worker.js"
          THEN /\ unit' = [unit EXCEPT ![u].tasks = @ \cup {ThrownTask(cmd)}]
               /\ UNCHANGED outbox
          ELSE /\ unit' = [unit EXCEPT ![u].tasks = @ \cup {ProcessTask(cmd)}]
               /\ UNCHANGED outbox
    /\ UNCHANGED <<poolVars, jobVars, errEvent, crashes, orchVars>>
    /\ progressSink' = NoProgress
    /\ UNCHANGED <<call, workerScope>>

\* The init command ends: ready, or a caught error reported as status error.
UnitInitDone(u) ==
    /\ unit[u].alive
    /\ InitTask \in unit[u].tasks
    /\ \/ /\ unit' = [unit EXCEPT ![u].tasks = @ \ {InitTask}, ![u].isInitialized = TRUE]
          /\ Post(u, Msg("ready", Undefined, NoJob, 0))
       \/ /\ unit' = [unit EXCEPT ![u].tasks = @ \ {InitTask}]
          /\ Post(u, Msg("error", Undefined, NoJob, 0))
    /\ UNCHANGED <<poolVars, jobVars, inbox, errEvent, crashes, orchVars>>
    /\ progressSink' = NoProgress
    /\ UNCHANGED <<call, workerScope>>

\* Mutant of UnitStep: a failing pass is reported but the handler goes on with
\* the next pass (the passes are not inside one try block).
UnitStepGoesOn(u) ==
    /\ unit[u].alive
    /\ \E t \in unit[u].tasks :
        /\ t.kind = "process" /\ t.pass # Undefined
        /\ \/ /\ t.pass < NumPasses
              /\ unit' = [unit EXCEPT ![u].tasks =
                             (@ \ {t}) \cup {[t EXCEPT !.pass = @ + 1]}]
              /\ Post(u, Msg("progress", t.chunkIndex, t.job, t.pass + 1))
           \/ /\ t.pass = NumPasses
              /\ unit' = [unit EXCEPT ![u].tasks = @ \ {t}]
              /\ Post(u, Msg("success", t.chunkIndex, t.job, 0))
           \/ /\ unit' = [unit EXCEPT ![u].tasks =
                             (@ \ {t}) \cup {[t EXCEPT !.pass =
                                 IF @ < NumPasses THEN @ + 1 ELSE @]}]
              /\ Post(u, Msg("error", t.chunkIndex, t.job, 0))
    /\ UNCHANGED <<poolVars, jobVars, inbox, errEvent, crashes, orchVars>>
    /\ progressSink' = NoProgress
    /\ UNCHANGED <<call, workerScope>>

\* One await of the process command returns: the chunk file was written
\* (pass 0) or pass 1..4 ended. On success the unit posts the progress message
\* of the next pass, or after the last pass the success message; on failure the
\* catch block posts the error message with the chunkIndex.
UnitStep(u) ==
    /\ unit[u].alive
    /\ \E t \in unit[u].tasks :
        /\ t.kind = "process" /\ t.pass # Undefined
        /\ \/ /\ t.pass < NumPasses
              /\ unit' = [unit EXCEPT ![u].tasks =
                             (@ \ {t}) \cup {[t EXCEPT !.pass = @ + 1]}]
              /\ Post(u, Msg("progress", t.chunkIndex, t.job, t.pass + 1))
           \/ /\ t.pass = NumPasses
              /\ unit' = [unit EXCEPT ![u].tasks = @ \ {t}]
              /\ Post(u, Msg("success", t.chunkIndex, t.job, 0))
           \/ /\ unit' = [unit EXCEPT ![u].tasks = @ \ {t}]
              /\ Post(u, Msg("error", t.chunkIndex, t.job, 0))
    /\ UNCHANGED <<poolVars, jobVars, inbox, errEvent, crashes, orchVars>>
    /\ progressSink' = NoProgress
    /\ UNCHANGED <<call, workerScope>>

\* The unit raises an uncaught error while its script loads or initializes,
\* while it works on a command, or right after it posted a message that the
\* page has not handled yet (a unit that has been idle for longer runs no
\* code): an error event is queued for the page and the unit does no further
\* work.
Crash(u) ==
    /\ initPromise # "none"
    /\ unit[u].alive
    /\ ~unit[u].isInitialized \/ unit[u].tasks # {} \/ outbox[u] # <<>>
    /\ crashes < MaxCrashes
    /\ crashes' = crashes + 1
    /\ unit' = [unit EXCEPT ![u] = [alive |-> FALSE, isInitialized |-> FALSE, tasks |-> {}]]
    /\ errEvent' = [errEvent EXCEPT ![u] = TRUE]
    /\ UNCHANGED <<poolVars, jobVars, inbox, outbox, orchVars>>
    /\ progressSink' = NoProgress
    /\ UNCHANGED <<call, workerScope>>

\* self.onerror of the unit: an uncaught error raised outside the command
\* handler's try blocks is caught by the unit's own global handler, which
\* posts an error message that carries no chunkIndex and suppresses the error
\* event; the command handler's work goes on.
GlobalError(u) ==
    /\ script = "process-chunk.worker.js"
    /\ initPromise # "none"
    /\ unit[u].alive
    /\ ~unit[u].isInitialized \/ unit[u].tasks # {}
    /\ crashes < MaxCrashes
    /\ crashes' = crashes + 1
    /\ Post(u, Msg("error", Undefined, NoJob, 0))
    /\ UNCHANGED <<poolVars, jobVars, inbox, errEvent, unit, orchVars>>
    /\ progressSink' = NoProgress
    /\ UNCHANGED <<call, workerScope>>

(* ------------------- runMasteringPipelineParallel ---------------------- *)
\* String(n): the decimal digits of n as character codes ('0' is 48).
RECURSIVE Digits(_)
Digits(n) == IF n < 10 THEN <<48 + n>> ELSE Append(Digits(n \div 10), 48 + (n % 10))

\* str.padStart(width, '0'): pads on the left, never truncates.
RECURSIVE PadStart(_, _)
PadStart(str, width) == IF Len(str) >= width THEN str ELSE PadStart(<<48>> \o str, width)

\* The part of `${workingDirectory}/processed_${String(chunkIndex).padStart(4, '0')}.mp3`
\* in which two such names can differ: the padded number and the '.' (46)
\* that follows it.
ProcessedFilename(chunkIndex) == Append(PadStart(Digits(chunkIndex), PadWidth), 46)

\* a < b in the order Array.prototype.sort() uses without a comparator:
\* strings compared code unit by code unit, a proper prefix first.
RECURSIVE StringLess(_, _)
StringLess(a, b) ==
    IF b = <<>> THEN FALSE
    ELSE IF a = <<>> THEN TRUE
    ELSE IF Head(a) # Head(b) THEN Head(a) < Head(b)
    ELSE StringLess(Tail(a), Tail(b))

\* processedFiles.sort(). A file is written down as the chunkIndex its name
\* was built from; the order is the order of the names.
SortFiles(files) ==
    SortSeq(files, LAMBDA a, b : StringLess(ProcessedFilename(a), ProcessedFilename(b)))

\* handleFileSelection -> runMasteringPipelineParallel up to the first stage:
\* Mutant of StartRun: handleFileSelection starts the run without looking at
\* the application's ready flag.
StartRunNotReady ==
    /\ opc = "idle"
    /\ initPromise # "none"
    /\ opc' = "sanitize"
    /\ cleanupPaths' = {"input"}
    /\ created' = {"input"}
    /\ UNCHANGED <<result, deleted>>
    /\ UNCHANGED <<chunkCount, runJobs, processedResults, processedFiles,
                   poolVars, jobVars, unitVars>>
    /\ progressSink' = NoProgress
    /\ UNCHANGED <<call, workerScope>>

\* createDir and mount of the working directory, the input path is pushed.
\* handleFileSelection returns at once while the application is not ready.
StartRun ==
    /\ opc = "idle"
    /\ initPromise = "resolved"
    /\ \/ /\ opc' = "sanitize"
          /\ cleanupPaths' = {"input"}
          /\ created' = {"input"}
          /\ UNCHANGED <<result, deleted>>
       \/ Fail({}, {})
    /\ UNCHANGED <<chunkCount, runJobs, processedResults, processedFiles,
                   poolVars, jobVars, unitVars>>
    /\ progressSink' = NoProgress
    /\ UNCHANGED <<call, workerScope>>

\* await sanitize(...): the sanitized file exists and its path is pushed, or
\* the stage throws because the file is absent.
Sanitize ==
    /\ opc = "sanitize"
    /\ \E engine \in EngineOutcomes, dir \in DirOutcomes :
         LET r == sanitize(engine, dir)
         IN /\ call' = r
            /\ IF r.threw
               THEN Fail(cleanupPaths, created)
               ELSE /\ opc' = "analyze"
                    /\ cleanupPaths' = cleanupPaths \cup {"sanitized"}
                    /\ created' = created \cup {"sanitized"}
                    /\ UNCHANGED <<result, deleted>>
    /\ UNCHANGED <<chunkCount, runJobs, processedResults, processedFiles,
                   poolVars, jobVars, unitVars>>
    /\ UNCHANGED workerScope
    /\ progressSink' = NoProgress

\* await analyze(...): duration and channel layout, or the stage throws.
Analyze ==
    /\ opc = "analyze"
    /\ \E engine \in EngineOutcomes, logText \in LogKinds :
         LET r == analyze(engine, logText)
         IN /\ call' = r
            /\ IF r.threw
               THEN Fail(cleanupPaths, created)
               ELSE /\ opc' = "chunk"
                    /\ UNCHANGED <<result, cleanupPaths, created, deleted>>
    /\ UNCHANGED <<chunkCount, runJobs, processedResults, processedFiles,
                   poolVars, jobVars, unitVars>>
    /\ UNCHANGED workerScope
    /\ progressSink' = NoProgress

\* await chunk(...) and the start of the fan-out: the split stage produced c
\* chunk files, whose paths are pushed; chunkFiles.map starts one readFile per
\* chunk and Promise.all starts waiting. With no chunk file the stage throws.
Chunk(c) ==
    /\ opc = "chunk"
    /\ \E engine \in EngineOutcomes, dir \in DirOutcomes :
         LET r == chunk(engine, dir, c)
         IN /\ call' = r
            /\ IF r.threw
               THEN /\ Fail(cleanupPaths, created)
                    /\ UNCHANGED chunkCount
               ELSE /\ opc' = "join"
                    /\ chunkCount' = r.value
                    /\ cleanupPaths' = cleanupPaths \cup {"chunks"}
                    /\ created' = created \cup {"chunks"}
                    /\ UNCHANGED <<result, deleted>>
    /\ UNCHANGED <<runJobs, processedResults, processedFiles,
                   poolVars, jobVars, unitVars>>
    /\ UNCHANGED workerScope
    /\ progressSink' = NoProgress

\* Mutant of Dispatch: every map callback dispatches with the chunkIndex of the
\* first chunk (the index parameter of the callback is not used).
DispatchFirstIndex(i) ==
    /\ opc \in {"join", "done"}
    /\ i < chunkCount
    /\ runJobs[i] = NoJob
    /\ \A k \in 0 .. (i - 1) : runJobs[k] # NoJob
    /\ dispatch(0)
    /\ runJobs' = [runJobs EXCEPT ![i] = Len(jobs) + 1]
    /\ UNCHANGED <<opc, result, cleanupPaths, created, deleted>>
    /\ UNCHANGED <<variant, script, poolSize, workers, onmessage, onerror, initPromise,
                   readyCount, readySeen, outbox, errEvent, unit, crashes,
                   chunkCount, processedResults, processedFiles>>
    /\ progressSink' = NoProgress
    /\ UNCHANGED <<call, workerScope>>

\* The readFile of chunk i returned: the map callback calls workerPool.dispatch.
\* The reads were requested in the order of chunkFiles and the engine answers
\* its requests in order. Nothing stops the callback once the run has failed.
\* A readFile that fails rejects the callback's promise (runJobs[i] is then
\* Undefined: no job) and with it Promise.all, if that is still waiting.
Dispatch(i) ==
    /\ opc \in {"join", "done"}
    /\ i < chunkCount
    /\ runJobs[i] = NoJob
    /\ \A k \in 0 .. (i - 1) : runJobs[k] # NoJob
    /\ \/ /\ dispatch(i)
          /\ runJobs' = [runJobs EXCEPT ![i] = Len(jobs) + 1]
          /\ UNCHANGED <<opc, result, cleanupPaths, created, deleted>>
       \/ /\ runJobs' = [runJobs EXCEPT ![i] = Undefined]
          /\ IF opc = "join" THEN Fail(cleanupPaths, created)
             ELSE UNCHANGED <<opc, result, cleanupPaths, created, deleted>>
          /\ UNCHANGED <<isBusy, jobQueue, activeJobs, workerState, jobVars, inbox>>
    /\ UNCHANGED <<variant, script, poolSize, workers, onmessage, onerror, initPromise,
                   readyCount, readySeen, outbox, errEvent, unit, crashes,
                   chunkCount, processedResults, processedFiles>>
    /\ progressSink' = NoProgress
    /\ UNCHANGED <<call, workerScope>>

\* The loop over processedResults followed by processedFiles.sort(): every
\* result is written to processed_NNNN.mp3 and the name is pushed to
\* processedFiles and to cleanupPaths, in the order of processedResults. The
\* loop touches nothing the pool's handlers touch, so it is one step. A
\* failing writeFile throws into the catch block; the files written before it
\* (none, or some) were pushed.
WriteProcessed ==
    /\ opc = "assemble"
    /\ \/ /\ processedFiles' = SortFiles([k \in 1 .. Len(processedResults) |->
                                             processedResults[k].chunkIndex])
          /\ opc' = "concat"
          /\ cleanupPaths' = cleanupPaths \cup {"processed"}
          /\ created' = created \cup {"processed"}
          /\ UNCHANGED <<result, deleted>>
       \/ /\ Fail(cleanupPaths, created)
          /\ UNCHANGED processedFiles
       \/ /\ chunkCount > 1
          /\ Fail(cleanupPaths \cup {"processed"}, created \cup {"processed"})
          /\ UNCHANGED processedFiles
    /\ UNCHANGED <<chunkCount, runJobs, processedResults, poolVars, jobVars, unitVars>>
    /\ progressSink' = NoProgress
    /\ UNCHANGED <<call, workerScope>>

\* await concatenate(...): it writes concat_list.txt and invokes the engine.
\* On success the final file exists and both paths are pushed. It throws when
\* writing the list fails, and when the list was written but the engine call
\* fails or leaves no final file; nothing is pushed then.
Concatenate ==
    /\ opc = "concat"
    /\ \E written \in BOOLEAN, engine \in EngineOutcomes, dir \in DirOutcomes :
         LET r == concatenate(written, engine, dir)
         IN /\ call' = r
            /\ IF r.threw
               THEN Fail(cleanupPaths,
                         created \cup (IF written THEN {"concat_list"} ELSE {}))
               ELSE /\ opc' = "read"
                    /\ cleanupPaths' = cleanupPaths \cup {"final", "concat_list"}
                    /\ created' = created \cup {"final", "concat_list"}
                    /\ UNCHANGED <<result, deleted>>
    /\ UNCHANGED <<chunkCount, runJobs, processedResults, processedFiles,
                   poolVars, jobVars, unitVars>>
    /\ UNCHANGED workerScope
    /\ progressSink' = NoProgress

\* The rest of the try block: the final file is read into the blob, cleanup()
\* runs and the success result is returned; a failing readFile throws.
ReadFinal ==
    /\ opc = "read"
    /\ \/ /\ opc' = "done"
          /\ result' = "success"
          /\ deleted' = cleanupPaths
          /\ UNCHANGED <<cleanupPaths, created>>
       \/ Fail(cleanupPaths, created)
    /\ UNCHANGED <<chunkCount, runJobs, processedResults, processedFiles,
                   poolVars, jobVars, unitVars>>
    /\ progressSink' = NoProgress
    /\ UNCHANGED <<call, workerScope>>

(* ----------------------- reuse of the pool ----------------------------- *)
\* The application holds one WorkerPool and hands it to every run: after a run
\* has returned, the next file selection calls handleFileSelection again,
\* which guards only on the ready flag. The new invocation of
\* runMasteringPipelineParallel has fresh locals (cleanupPaths, chunkFiles,
\* processingPromises, processedFiles); the pool, its units and the futures of
\* the earlier run stay as they are. The step is taken once the readFile
\* callbacks of the earlier run have all run, and while at most MaxReuseJobs
\* jobs have been dispatched.
SelectAgain ==
    /\ opc = "done"
    /\ initPromise = "resolved"
    /\ \A i \in RunChunks : runJobs[i] # NoJob
    /\ Len(jobs) <= MaxReuseJobs
    /\ \/ /\ opc' = "sanitize"
          /\ result' = "none"
          /\ cleanupPaths' = {"input"}
          /\ created' = {"input"}
          /\ deleted' = {}
       \/ Fail({}, {})
    /\ chunkCount' = 0
    /\ runJobs' = [c \in ChunkIndexes |-> NoJob]
    /\ processedResults' = <<>>
    /\ processedFiles' = <<>>
    /\ UNCHANGED <<poolVars, jobVars, unitVars>>
    /\ progressSink' = NoProgress
    /\ UNCHANGED <<call, workerScope>>

(* --------------------------- specification ----------------------------- *)
Next ==
    \/ initialize
    \/ terminate
    \/ \E u \in Units : DeliverMessage(u)
    \/ \E u \in Units : DeliverError(u)
    \/ \E u \in Units : UnitReceive(u)
    \/ \E u \in Units : UnitInitDone(u)
    \/ \E u \in Units : UnitStep(u)
    \/ \E u \in Units : Crash(u)
    \/ \E u \in Units : GlobalError(u)
    \/ StartRun
    \/ Sanitize
    \/ Analyze
    \/ \E c \in 1 .. MaxChunks : Chunk(c)
    \/ \E i \in ChunkIndexes : Dispatch(i)
    \/ WriteProcessed
    \/ Concatenate
    \/ ReadFinal

Spec == Init /\ [][Next]_vars

(* ------------------- runs that share the pool ----------------------- *)
\* The application as it is deployed: new WorkerPool(
\* './js/worker/process-chunk.worker.js') of jobs/workerPool.js.
ReuseInit ==
    /\ Init
    /\ variant = "v21"
    /\ script = "process-chunk.worker.js"
    /\ poolSize = MaxPoolSize

\* The steps of Next in which no unit raises an uncaught error and the page
\* does not terminate the pool, and the next file selection.
ReuseNext ==
    \/ initialize
    \/ \E u \in Units : DeliverMessage(u)
    \/ \E u \in Units : UnitReceive(u)
    \/ \E u \in Units : UnitInitDone(u)
    \/ \E u \in Units : UnitStep(u)
    \/ StartRun
    \/ Sanitize
    \/ Analyze
    \/ \E c \in 1 .. MaxChunks : Chunk(c)
    \/ \E i \in ChunkIndexes : Dispatch(i)
    \/ WriteProcessed
    \/ Concatenate
    \/ ReadFinal
    \/ SelectAgain

SpecReuse == ReuseInit /\ [][ReuseNext]_vars

(* ------------- the assembly stage on its own (lines 147-156) ----------- *)
\* Chunk counts of the runs whose assembly is checked on its own. A run has
\* one chunk per 300 s of audio and chunk_%04d / padStart(4, '0') write the
\* index with four digits, so the first count with a five-digit index is there.
AssemblyChunkCounts == (1 .. 12) \cup {10001}

\* The state in which Promise.all has just returned for a run of c chunks that
\* a pool of one unit mastered one after the other: every job was sent to
\* unit 0 and resolved with its own chunkIndex and payload.
AssemblyInit ==
    /\ variant \in Variants
    /\ script = "process-chunk.worker.js"
    /\ poolSize = 1
    /\ workers = <<0>>
    /\ isBusy = [u \in Units |-> FALSE]
    /\ onmessage = [u \in Units |-> "handleWorkerMessage"]
    /\ onerror = [u \in Units |-> IF variant = "v21" THEN "handleWorkerError" ELSE "initOnError"]
    /\ jobQueue = <<>>
    /\ activeJobs = [c \in ChunkIndexes |-> NoJob]
    /\ workerState = [u \in Units |-> Undefined]
    /\ initPromise = "resolved"
    /\ readyCount = 1
    /\ readySeen = {0}
    /\ chunkCount \in AssemblyChunkCounts
    /\ jobs = [j \in 1 .. chunkCount |-> j - 1]
    /\ future = [j \in 1 .. chunkCount |->
                    [PendingFuture EXCEPT !.state = "resolved", !.calls = 1,
                                          !.chunkIndex = j - 1, !.data = j]]
    /\ sent = [j \in 1 .. chunkCount |-> <<0>>]
    /\ waited = {}
    /\ progressSink = NoProgress
    /\ inbox = [u \in Units |-> <<>>]
    /\ outbox = [u \in Units |-> <<>>]
    /\ errEvent = [u \in Units |-> FALSE]
    /\ unit = [u \in Units |-> [FreshUnit EXCEPT !.isInitialized = TRUE]]
    /\ crashes = 0
    /\ opc = "assemble"
    /\ runJobs = [c \in 0 .. (chunkCount - 1) |-> c + 1]
    /\ processedResults = [k \in 1 .. chunkCount |->
           [chunkIndex |-> future[runJobs[k - 1]].chunkIndex,
            processedData |-> future[runJobs[k - 1]].data]]
    /\ processedFiles = <<>>
    /\ result = "none"
    /\ cleanupPaths = {"input", "sanitized", "chunks"}
    /\ created = {"input", "sanitized", "chunks"}
    /\ deleted = {}
    /\ call = chunk("zero", "listed", chunkCount)
    /\ workerScope = IdleScope

AssemblyNext == WriteProcessed \/ Concatenate \/ ReadFinal

SpecAssembly == AssemblyInit /\ [][AssemblyNext]_vars

(* ------------- the stage and pass functions on their own --------------- *)
\* The pool is as constructed and stays so; each action calls one function
\* on inputs drawn from what the engine and the file system can do, and a
\* behaviour is one such call.
StagesInit ==
    /\ Init
    /\ variant = "v21"
    /\ script = "process-chunk.worker.js"
    /\ poolSize = 1

Returns(r, inputs) ==
    /\ call = NoCall
    /\ call' = [r EXCEPT !.in = inputs]
    /\ UNCHANGED <<poolVars, jobVars, unitVars, orchVars, progressSink, workerScope>>

CallRunFFmpeg ==
    \E rev \in RunRevisions, engine \in EngineOutcomes, hasLogStore \in BOOLEAN :
        Returns(runFFmpeg(rev, engine, hasLogStore),
                [NoInput EXCEPT !.rev = rev, !.engine = engine,
                                !.hasLogStore = hasLogStore])

CallStage ==
    \E engine \in EngineOutcomes, dir \in DirOutcomes :
        \/ Returns(sanitize(engine, dir),
                   [NoInput EXCEPT !.rev = "run.js", !.engine = engine, !.dir = dir])
        \/ \E logText \in LogKinds :
              Returns(analyze(engine, logText),
                      [NoInput EXCEPT !.rev = "run.js", !.engine = engine,
                                      !.text = logText])
        \/ \E n \in 1 .. MaxChunks :
              Returns(chunk(engine, dir, n),
                      [NoInput EXCEPT !.rev = "run.js", !.engine = engine, !.dir = dir])
        \/ \E written \in BOOLEAN :
              Returns(concatenate(written, engine, dir),
                      [NoInput EXCEPT !.rev = "run.js", !.engine = engine, !.dir = dir,
                                      !.readable = written])

CallNormalizeLoudness ==
    \E engine \in EngineOutcomes, dir \in DirOutcomes :
        Returns(normalizeLoudness(engine, dir),
                [NoInput EXCEPT !.rev = "run.js", !.engine = engine,
                                !.dir = dir])

CallAnalyzeNormalized ==
    \E engine \in EngineOutcomes, dir \in DirOutcomes, readable \in BOOLEAN,
       text \in ReportTexts :
        Returns(analyzeNormalized(engine, dir, readable, text),
                [NoInput EXCEPT !.rev = "run.js", !.engine = engine,
                                !.dir = dir,
                                !.readable = readable, !.text = text])

CallMasterEncode ==
    \E engine \in EngineOutcomes, dir \in DirOutcomes :
        Returns(masterEncode(engine, dir),
                [NoInput EXCEPT !.rev = "run.js", !.engine = engine,
                                !.dir = dir])

\* A call of parseRmsLevel on its own: the value is the level in tenths, and
\* no value when the function threw or returned NaN.
CallParseRmsLevel ==
    \E text \in ReportTexts :
        LET p == parseRmsLevel(text)
        IN Returns(Outcome("parseRmsLevel", p.thrown,
                           IF p.thrown THEN "parse" ELSE "none", <<>>, FALSE, FALSE,
                           IF p.thrown \/ p.level.nan THEN Undefined
                           ELSE p.level.tenths),
                   [NoInput EXCEPT !.text = text])

\* Calls of parseLoudness and of analyzeLoudness on every diagnostic text.
CallParseLoudness ==
    \E logText \in LogTexts :
        LET p == parseLoudness(logText)
        IN Returns(Outcome("parseLoudness", p.thrown,
                           IF p.thrown THEN "parse" ELSE "none", <<>>, FALSE, FALSE,
                           p.data),
                   [NoInput EXCEPT !.text = logText])

CallAnalyzeLoudness ==
    \E rev \in RunRevisions, engine \in EngineOutcomes, logText \in LogTexts :
        Returns(analyzeLoudness(rev, engine, logText),
                [NoInput EXCEPT !.rev = rev, !.engine = engine,
                                !.hasLogStore = TRUE, !.text = logText])

\* The filter chain of masterEncode for every level and every option set.
CallMasteringFilters ==
    \E rmsLevel \in RmsLevels, options \in MasteringOptions :
        Returns(Outcome("masteringFilters", FALSE, "none", <<>>, FALSE, FALSE,
                        masteringFilters(rmsLevel, options)),
                [NoInput EXCEPT !.rmsLevel = rmsLevel, !.options = options])

StagesNext ==
    \/ CallRunFFmpeg
    \/ CallStage
    \/ CallNormalizeLoudness
    \/ CallAnalyzeNormalized
    \/ CallMasterEncode
    \/ CallParseRmsLevel
    \/ CallParseLoudness
    \/ CallAnalyzeLoudness
    \/ CallMasteringFilters

SpecStages == StagesInit /\ [][StagesNext]_vars

(* ------------- the process command of one unit, step by step ----------- *)
\* The unit script serves the process commands it is sent one after the
\* other, each with a chunkIndex, the chunkData, the channel layout and the
\* mastering options. A later run of the page sends the chunkIndex values of
\* an earlier run again. Each step below is the code from one await of the
\* handler to the next.
ScopeInit ==
    /\ Init
    /\ variant = "v21"
    /\ script = "process-chunk.worker.js"
    /\ poolSize = 1

Scope(s) ==
    /\ workerScope' = s
    /\ UNCHANGED <<poolVars, jobVars, unitVars, orchVars, progressSink, call>>

\* The catch block of the process command: the error message is posted with
\* the chunkIndex; no file is deleted.
Catch(s) == [s EXCEPT !.pc = "idle", !.posted = "error"]

\* self.onmessage, command 'process', up to the end of `await
\* ffmpeg.writeFile(chunkFilepath, chunkData)`.
ProcessCommand(chunkIndex, channelLayout, masteringOptions) ==
    /\ workerScope.pc = "idle"
    /\ workerScope.served < MaxServed
    /\ LET chunkData == workerScope.served + 1
           s == [IdleScope EXCEPT !.served = chunkData,
                                  !.logs = workerScope.logs,
                                  !.files = workerScope.files,
                                  !.chunkIndex = chunkIndex,
                                  !.chunkData = chunkData,
                                  !.channelLayout = channelLayout,
                                  !.masteringOptions = masteringOptions]
       IN \/ Scope([s EXCEPT !.pc = "pass1",
                             !.files = WriteFile(@, "chunk", chunkIndex, chunkData)])
          \/ Scope(Catch(s))

\* await analyzeLoudness(ffmpeg, chunkFilepath, channelLayout, logStore):
\* logStore.clear(), the filter chain, the engine call, during which the log
\* listener appends the engine's lines, and parseLoudness(logStore.get()).
AnalyzeLoudnessPass ==
    /\ workerScope.pc = "pass1"
    /\ \E rev \in RunRevisions, engine \in EngineOutcomes :
         LET c == workerScope.chunkIndex
             logs == <<>> \o LogOf(engine, ContentOf(workerScope.files, "chunk", c))
             r == analyzeLoudness(rev, engine, logs)
             s == [workerScope EXCEPT
                      !.logs = logs,
                      !.analysisFilter = loudnessAnalysisFilter(workerScope.channelLayout)]
         IN IF r.threw THEN Scope(Catch(s))
            ELSE Scope([s EXCEPT !.pc = "pass2", !.loudnessData = r.value])

\* await normalizeLoudness(ffmpeg, chunkFilepath, channelLayout, loudnessData,
\* logStore): the engine writes chunk_NNNN_norm.wav from the chunk file.
NormalizeLoudnessPass ==
    /\ workerScope.pc = "pass2"
    /\ \E engine \in EngineOutcomes, rejects \in BOOLEAN :
         LET c == workerScope.chunkIndex
             files == Exec(engine, workerScope.files, "chunk", "norm", c)
             r == normalizeLoudness(engine, ListDir(rejects, files, "norm", c))
             s == [workerScope EXCEPT
                      !.logs = <<Piece("x")>>,
                      !.files = IF engine = "throws" THEN @ ELSE files,
                      !.correctionFilter =
                          loudnessCorrectionFilter(workerScope.channelLayout,
                                                   workerScope.loudnessData)]
         IN IF r.threw THEN Scope(Catch(s))
            ELSE Scope([s EXCEPT !.pc = "pass3"])

\* await analyzeNormalized(ffmpeg, normalizedFile, logStore): the engine
\* writes chunk_NNNN_rms.txt from the normalized file, the report is read and
\* parsed, and the finally block deletes it.
AnalyzeNormalizedPass ==
    /\ workerScope.pc = "pass3"
    /\ \E engine \in EngineOutcomes, rejects \in BOOLEAN, readable \in BOOLEAN :
         LET c == workerScope.chunkIndex
             files == Exec(engine, workerScope.files, "norm", "rms", c)
             text == IF Named(files, "rms", c) # {}
                     THEN RmsTextOf(ContentOf(files, "rms", c))
                     ELSE ""
             r == analyzeNormalized(engine, ListDir(rejects, files, "rms", c),
                                    readable, text)
             s == [workerScope EXCEPT
                      !.logs = <<Piece("x")>>,
                      !.files = DeleteFile(files, "rms", c)]
         IN IF r.threw THEN Scope(Catch(s))
            ELSE Scope([s EXCEPT !.pc = "pass4", !.rmsLevel = r.value])

\* await masterEncode(ffmpeg, normalizedFile, rmsLevel, masteringOptions,
\* logStore): the filter chain is built from rmsLevel and the options, the
\* engine writes chunk_NNNN_mastered.mp3 from the normalized file, and the
\* finally block deletes the normalized file.
MasterEncodePass ==
    /\ workerScope.pc = "pass4"
    /\ \E engine \in EngineOutcomes, rejects \in BOOLEAN :
         LET c == workerScope.chunkIndex
             files == Exec(engine, workerScope.files, "norm", "mastered", c)
             r == masterEncode(engine, ListDir(rejects, files, "mastered", c))
             s == [workerScope EXCEPT
                      !.logs = <<Piece("x")>>,
                      !.files = DeleteFile(files, "norm", c),
                      !.filters = masteringFilters(workerScope.rmsLevel,
                                                   workerScope.masteringOptions)]
         IN IF r.threw THEN Scope(Catch(s))
            ELSE Scope([s EXCEPT !.pc = "read"])

\* The rest of the try block: readFile(processedFilename), deleteFile of the
\* chunk file and of the mastered file, and the success message. Each of the
\* three calls can reject, which goes to the catch block.
PostSuccess ==
    /\ workerScope.pc = "read"
    /\ LET c == workerScope.chunkIndex
           s == workerScope
           s1 == [s EXCEPT !.processedData = ContentOf(s.files, "mastered", c)]
           s2 == [s1 EXCEPT !.files = DeleteFile(@, "chunk", c)]
           s3 == [s2 EXCEPT !.files = DeleteFile(@, "mastered", c)]
       IN \/ Scope([s3 EXCEPT !.pc = "idle", !.posted = "success"])
          \/ Scope(Catch(s))
          \/ Scope(Catch(s1))
          \/ Scope(Catch(s2))

ScopeNext ==
    \/ \E chunkIndex \in ChunkIndexes, channelLayout \in ChannelLayouts,
          masteringOptions \in MasteringOptions :
              ProcessCommand(chunkIndex, channelLayout, masteringOptions)
    \/ AnalyzeLoudnessPass
    \/ NormalizeLoudnessPass
    \/ AnalyzeNormalizedPass
    \/ MasterEncodePass
    \/ PostSuccess

SpecScope == ScopeInit /\ [][ScopeNext]_vars

(* ------------------------------ claims --------------------------------- *)
\* The concatenation list is complete: the loop over processedResults has
\* ended and processedFiles.sort() has run.
ListBuilt == opc \in {"concat", "read"} \/ result = "success"

\* C1: whenever the orchestrator has built the concatenation list, the list
\* names the mastered chunks in strictly ascending chunkIndex order, for every
\* chunk count and every order in which the jobs completed.
C1_AscendingOrder ==
    ListBuilt =>
        \A k \in 1 .. (Len(processedFiles) - 1) : processedFiles[k] < processedFiles[k + 1]

(* ----------------------- vocabulary of the claims ---------------------- *)
Terminal(m) == m.status \in {"success", "error"} /\ m.chunkIndex # Undefined

\* Job j was sent to unit u and is not yet completed there: its process
\* command waits in the unit's inbox, the unit works on it, or the unit's
\* terminal message for it has not reached the pool yet.
InFlightAt(u) ==
    {j \in JobIds :
        \/ \E i \in 1 .. Len(inbox[u]) : inbox[u][i].command = "process" /\ inbox[u][i].job = j
        \/ \E t \in unit[u].tasks : t.kind = "process" /\ t.job = j
        \/ \E i \in 1 .. Len(outbox[u]) : Terminal(outbox[u][i]) /\ outbox[u][i].data = j}

\* The step just taken delivered the first waiting message of unit u to the
\* handler installed on it.
MessageStep(u) ==
    /\ workers # <<>> /\ workers' = workers
    /\ outbox[u] # <<>>
    /\ outbox'[u] = Tail(outbox[u])

\* The step just taken delivered an error event of unit u to worker.onerror.
ErrorStep(u) ==
    /\ workers # <<>> /\ workers' = workers
    /\ errEvent[u] /\ ~errEvent'[u]

\* The pending record the pool holds for the job unit u is working on.
HeldJob(u) ==
    IF workerState[u] # Undefined THEN activeJobs[workerState[u]] ELSE NoJob

\* C2: in every reachable state every unit has at most one job that was sent
\* to it and has not completed.
C2_OneInFlightPerUnit == \A u \in Units : Cardinality(InFlightAt(u)) <= 1

\* C2 witness: a unit holds its one job while a later job waits in the queue.
C2_Witness ==
    /\ jobQueue # <<>>
    /\ \E u \in Units : Cardinality(InFlightAt(u)) = 1 /\ unit[u].tasks # {}

\* C3: the resolve and reject functions of a job's future are called at most
\* once in total, so the future is never settled twice nor both ways.
C3_SettledAtMostOnce == \A j \in JobIds : future[j].calls <= 1

\* C3 witness: one future was resolved by a success message and another was
\* rejected by the crash handler, each by a single call.
C3_Witness ==
    /\ \E j \in JobIds : future[j].state = "resolved" /\ future[j].calls = 1
    /\ \E j \in JobIds : future[j].reason = "crash" /\ future[j].calls = 1

\* Nothing is left to happen for the jobs of the run: every job was
\* dispatched, the pool is initialized and not terminated, no message, command
\* or error event is under way and no living unit is working.
Quiescent ==
    /\ initPromise = "resolved" /\ workers # <<>>
    /\ opc # "idle" /\ \A i \in RunChunks : runJobs[i] # NoJob
    /\ \A u \in Units :
        /\ outbox[u] = <<>> /\ ~errEvent[u]
        /\ unit[u].alive => (inbox[u] = <<>> /\ unit[u].tasks = {})

\* Every process command that was sent reached its unit while the unit was
\* running, and every unit that received one answered it or crashed.
UnitsAnsweredOrCrashed ==
    \A u \in Units :
        /\ \A i \in 1 .. Len(inbox[u]) : inbox[u][i].command # "process"
        /\ unit[u].alive => InFlightAt(u) = {}

\* C4: no job is lost: once every unit that received a process command has
\* answered or crashed and nothing is under way, every dispatched job's future
\* is settled.
C4_NoJobLost ==
    (Quiescent /\ UnitsAnsweredOrCrashed) =>
        \A j \in JobIds : future[j].state # "pending"

\* The queue holds jobs in the order of their dispatch.
QueueInDispatchOrder ==
    \A a, b \in 1 .. Len(jobQueue) : a < b => jobQueue[a] < jobQueue[b]

\* C5: a dispatch made while every unit is busy appends the job to the queue
\* and sends nothing; a job leaves the queue only from its head, and it goes
\* to a unit freed in that step; so queued jobs are assigned in dispatch order.
C5_FifoQueue ==
    [][ /\ (Len(jobs') = Len(jobs) + 1 /\ AvailableWorker = Undefined) =>
              /\ jobQueue' = Append(jobQueue, Len(jobs'))
              /\ inbox' = inbox
        /\ jobQueue' # jobQueue /\ Len(jobQueue') <= Len(jobQueue) =>
              /\ jobQueue' = Tail(jobQueue)
              /\ \E u \in Units :
                    /\ MessageStep(u)
                    /\ sent'[Head(jobQueue)] = Append(sent[Head(jobQueue)], u)
                    /\ inbox'[u] = Append(inbox[u],
                                          ProcessCmd(Head(jobQueue), jobs[Head(jobQueue)]))
        /\ QueueInDispatchOrder'
        /\ \A q \in 1 .. Len(jobQueue') : \A j \in JobIds' :
              (j \in waited' /\ sent'[j] # <<>>) => j < jobQueue'[q]
      ]_vars

\* C5 witness: a job that had to wait has been assigned while a job
\* dispatched after it still waits.
C5_Witness ==
    \E j \in waited : sent[j] # <<>> /\ jobQueue # <<>> /\ j < Head(jobQueue)

\* C6: initialize() is resolved only when every unit has reported ready, it
\* is resolved as soon as all have unless it was rejected before, and the
\* step in which the pool receives a setup error from a unit leaves it
\* rejected, whatever the other units did.
C6_InitializeIffAllReady ==
    [][ /\ initPromise' = "resolved" => readySeen' = Units
        /\ (readySeen' = Units /\ initPromise' # "rejected") => initPromise' = "resolved"
        /\ \A u \in Units :
              (MessageStep(u) /\ onmessage[u] = "initHandler"
                 /\ Head(outbox[u]).status = "error") => initPromise' = "rejected"
      ]_vars

\* C6 witness: one unit of two reported ready, the other reported a setup
\* error, and initialize() is rejected.
C6_Witness ==
    /\ poolSize = 2 /\ crashes = 0
    /\ Cardinality(readySeen) = 1
    /\ initPromise = "rejected"

\* C7: when the error event of a unit that has not reported ready is
\* handled while initialize() is pending, initialize() is rejected.
C7_CrashBeforeReadyRejects ==
    [][ \A u \in Units :
          (ErrorStep(u) /\ u \notin readySeen /\ initPromise = "pending")
             => initPromise' = "rejected" ]_vars

\* C8: when the error event of a unit that holds a job is handled after
\* initialize() resolved, that job's future becomes rejected with the crash
\* error naming the unit and the chunkIndex, and the futures, pending records
\* and unit assignments of all other jobs stay as they are.
C8_CrashRejectsOnlyThatJob ==
    [][ \A u \in Units :
          (ErrorStep(u) /\ initPromise = "resolved" /\ HeldJob(u) # NoJob) =>
             /\ future'[HeldJob(u)].state = "rejected"
             /\ future'[HeldJob(u)].reason = "crash"
             /\ future'[HeldJob(u)].unitId = u
             /\ future'[HeldJob(u)].chunkIndex = workerState[u]
             /\ \A j \in JobIds \ {HeldJob(u)} : future'[j] = future[j]
             /\ \A c \in ChunkIndexes \ {workerState[u]} : activeJobs'[c] = activeJobs[c]
             /\ \A v \in Units \ {u} :
                   workerState'[v] = workerState[v] /\ isBusy'[v] = isBusy[v]
      ]_vars

\* C9: when the error event of a unit that holds a job is handled, the pool
\* either terminates every unit or puts a fresh unit, sent init again, in
\* the crashed unit's place.
C9_TerminateOrReplace ==
    [][ \A u \in Units :
          (ErrorStep(u) /\ HeldJob(u) # NoJob) =>
             \/ \A v \in Units : ~unit'[v].alive
             \/ /\ unit'[u] = FreshUnit
                /\ inbox'[u] = <<InitCmd>>
                /\ onmessage'[u] = "replaceHandler"
      ]_vars

C11_NoDuplicateNoRetry ==
    [][ /\ \A j \in 1 .. Len(sent') : Len(sent'[j]) <= 1
        /\ \A j \in JobIds :
              future[j].state = "rejected" => sent'[j] = sent[j]
        /\ \A u \in Units : \A j \in JobIds :
              Cardinality({i \in 1 .. Len(inbox'[u]) :
                              inbox'[u][i].command = "process" /\ inbox'[u][i].job = j}) <= 1
      ]_vars

\* C11 witness: a job that was sent once had its future rejected by a reported
\* failure, and a job dispatched later has been sent to a unit since.
C11_Witness ==
    \E j, k \in JobIds :
        /\ j < k
        /\ future[j].state = "rejected" /\ future[j].reason = "reported"
        /\ Len(sent[j]) = 1 /\ Len(sent[k]) = 1

\* The jobs the run dispatched (a chunk whose readFile failed has none).
RunJobIds == {runJobs[i] : i \in RunChunks} \ {NoJob, Undefined}

\* C12: the run returns the success result only if a job was dispatched for
\* every chunk and every one of these futures resolved, and then the final file
\* was assembled from one result per chunk, each produced from that chunk's
\* job; and in every state in which a chunk future of the run is rejected the
\* run has returned the error result.
C12_AllOrNothing ==
    /\ result = "success" =>
          /\ \A i \in RunChunks :
                /\ runJobs[i] \in JobIds
                /\ future[runJobs[i]].state = "resolved"
          /\ Len(processedResults) = chunkCount
          /\ \A k \in 1 .. chunkCount : processedResults[k].processedData = runJobs[k - 1]
          /\ Len(processedFiles) = chunkCount
          /\ {processedFiles[k] : k \in 1 .. Len(processedFiles)} = RunChunks
    /\ (\E j \in RunJobIds : future[j].state = "rejected") => result = "error"

\* C12 witness: a run of several chunks in which one chunk future resolved
\* and another rejected has returned the error result.
C12_Witness ==
    /\ result = "error"
    /\ \E j, k \in RunJobIds :
          future[j].state = "resolved" /\ future[k].state = "rejected"

\* The step just taken handled, in _handleWorkerMessage, the error message of
\* unit u for a job that has a pending record: a reported failure.
ReportedFailureStep(u) ==
    /\ MessageStep(u) /\ onmessage[u] = "handleWorkerMessage"
    /\ Head(outbox[u]).status = "error"
    /\ Terminal(Head(outbox[u]))
    /\ activeJobs[Head(outbox[u]).chunkIndex] # NoJob

\* What a reported failure does to the job that failed and to the futures
\* and the units of the others: the failed job's future is rejected, no other
\* future changes and no other unit's assignment changes.
FailureRejectsOnlyThat(u) ==
    LET c == Head(outbox[u]).chunkIndex
        j == activeJobs[c]
    IN /\ future'[j].state = "rejected" /\ future'[j].reason = "reported"
       /\ \A k \in JobIds \ {j} : future'[k] = future[k]
       /\ \A v \in Units \ {u} :
             workerState'[v] = workerState[v] /\ isBusy'[v] = isBusy[v]

C14_ExactlyOneResult ==
    /\ opc = "done" <=> result \in {"success", "error"}
    /\ opc # "done" => result = "none"
    /\ (Quiescent /\ UnitsAnsweredOrCrashed) => opc # "join"

\* C15: when a run has returned, on whatever path, cleanup() has called
\* deleteFile for every kind of intermediate artifact the run created in the
\* working directory.
C15_CleanupOnEveryExit == opc = "done" => created \subseteq deleted

ProcessReceived(u) ==
    /\ unit[u].alive /\ unit'[u].alive
    /\ inbox[u] # <<>> /\ inbox'[u] = Tail(inbox[u])
    /\ Head(inbox[u]).command = "process"

\* The step just taken appended message m to the messages unit u has posted.
Posted(u, m) == outbox'[u] = Append(outbox[u], m)

\* C17: for every process command a unit receives the unit posts progress
\* messages and then exactly one terminal message with the command's
\* chunkIndex: a received command is answered at once by such a terminal
\* message or leaves work that still runs towards one; the work of a command
\* ends only by posting that one terminal message; and whatever the unit posts
\* while it works on the command is a progress or terminal message with the
\* command's chunkIndex.
C17_ProgressThenOneTerminal ==
    [][\A u \in Units :
        /\ ProcessReceived(u) =>
             LET cmd == Head(inbox[u])
             IN \/ ProcessTask(cmd) \in unit'[u].tasks
                \/ \E st \in {"success", "error"} :
                       Posted(u, Msg(st, cmd.chunkIndex, cmd.job, 0))
        /\ \A t \in unit[u].tasks :
             (t.kind = "process" /\ unit'[u].alive /\ t \notin unit'[u].tasks) =>
                 \/ /\ t.pass # Undefined /\ t.pass < NumPasses
                    /\ [t EXCEPT !.pass = @ + 1] \in unit'[u].tasks
                    /\ Posted(u, Msg("progress", t.chunkIndex, t.job, t.pass + 1))
                 \/ \E st \in {"success", "error"} :
                        Posted(u, Msg(st, t.chunkIndex, t.job, 0))
        /\ (/\ unit'[u].alive
            /\ Len(outbox'[u]) > Len(outbox[u])
            /\ \E t \in unit[u].tasks : t.kind = "process") =>
                 \E t \in unit[u].tasks :
                     /\ t.kind = "process"
                     /\ outbox'[u][Len(outbox'[u])].chunkIndex = t.chunkIndex
    ]_vars


\* Every map callback of the fan-out has run: each chunk's readFile returned
\* and its job was dispatched, or the readFile failed.
FanOutDone == opc \in {"join", "assemble", "concat", "read", "done"} /\ chunkCount > 0
              /\ \A i \in RunChunks : runJobs[i] # NoJob

\* The chunkIndex values of the jobs the pool was given.
DispatchedIndexes == {jobs[j] : j \in JobIds}

\* C18 as stated: once the fan-out of a run with C chunks is over, exactly C
\* jobs were dispatched and their chunkIndex values are exactly 0..C-1, each
\* used once.
C18_ExactlyCJobs ==
    FanOutDone => (Len(jobs) = chunkCount /\ DispatchedIndexes = RunChunks)

\* C18 amended: the jobs dispatched for a run with C chunks carry distinct
\* chunkIndex values within 0..C-1, the job of chunk i carries i, and there
\* are exactly C of them with exactly the values 0..C-1 once every chunk file
\* was read, which is the case whenever the join passed.
C18_AtMostCJobs ==
    /\ Len(jobs) <= chunkCount
    /\ DispatchedIndexes \subseteq RunChunks
    /\ \A j, k \in JobIds : jobs[j] = jobs[k] => j = k
    /\ \A i \in RunChunks : runJobs[i] \in JobIds => jobs[runJobs[i]] = i
    /\ (FanOutDone /\ \A i \in RunChunks : runJobs[i] # Undefined) =>
           (Len(jobs) = chunkCount /\ DispatchedIndexes = RunChunks)
    /\ (opc \in {"assemble", "concat", "read"} \/ result = "success") =>
           (Len(jobs) = chunkCount /\ DispatchedIndexes = RunChunks)

\* C18 witness: the split stage produced the largest number of chunks, all of
\* them were dispatched and the join passed.
C18_Witness ==
    /\ chunkCount = MaxChunks /\ opc = "concat"
    /\ Len(jobs) = MaxChunks /\ DispatchedIndexes = 0 .. (MaxChunks - 1)


\* The step just taken made the orchestrator enter stage st.
Enters(st) == opc # st /\ opc' = st

\* C19: the stages of a run follow one another: analyze starts only when
\* sanitize has completed, split only when analyze has completed, a job is
\* dispatched to the pool only after split has completed, and the
\* concatenation stage is entered and its engine invoked (concat_list.txt is
\* written just before) only when every dispatched chunk future is resolved.
C19_StageOrder ==
    [][/\ Enters("analyze") => (opc = "sanitize" /\ "sanitized" \in created')
       /\ Enters("chunk") => opc = "analyze"
       /\ Len(jobs') > Len(jobs) =>
            (chunkCount > 0 /\ "chunks" \in created
             /\ opc \notin {"idle", "sanitize", "analyze", "chunk"})
       /\ (Enters("assemble") \/ Enters("concat")) =>
            /\ Len(jobs') = chunkCount
            /\ \A j \in 1 .. Len(jobs') : future'[j].state = "resolved"
       /\ ("concat_list" \in created' /\ "concat_list" \notin created) =>
            /\ opc = "concat"
            /\ Len(jobs) = chunkCount
            /\ \A j \in JobIds : future[j].state = "resolved"
    ]_vars

\* C19 witness: a run with several chunks went through every stage and its
\* concatenation produced the final file.
C19_Witness ==
    /\ opc = "read" /\ chunkCount > 1
    /\ {"sanitized", "chunks", "processed", "final"} \subseteq created
    /\ \A j \in JobIds : future[j].state = "resolved"


\* The step just taken posted a process command to unit u.
ProcessSent(u) ==
    /\ Len(inbox'[u]) = Len(inbox[u]) + 1
    /\ inbox'[u][Len(inbox'[u])].command = "process"

\* C20: a process command is posted to a unit only when initialize() has
\* succeeded and the pool has seen that unit's ready message; the unit object
\* that gets the command, if it is running, has finished its own init (which
\* holds for a replacement unit as well), so no unit ever takes a process
\* command while it is not initialized.
C20_NoJobBeforeReady ==
    [][\A u \in Units :
        /\ ProcessSent(u) =>
             /\ initPromise = "resolved"
             /\ u \in readySeen
             /\ onmessage[u] # "replaceHandler" /\ onmessage'[u] # "initHandler"
             /\ unit[u].alive => unit[u].isInitialized
        /\ ProcessReceived(u) => unit[u].isInitialized
    ]_vars

\* C20 witness: the pool is initialized and a ready unit has a process command
\* waiting in its inbox.
C20_Witness ==
    /\ initPromise = "resolved"
    /\ \E u \in Units :
        /\ u \in readySeen /\ unit[u].alive /\ unit[u].isInitialized
        /\ inbox[u] # <<>> /\ Head(inbox[u]).command = "process"


\* Unit u is stopped: it runs no code, has no command waiting and none of its
\* messages or error events will reach the page.
Stopped(u) ==
    /\ ~unit[u].alive /\ unit[u].tasks = {}
    /\ inbox[u] = <<>> /\ outbox[u] = <<>> /\ ~errEvent[u]

\* C21: terminate() stops every unit of the pool whatever the unit was doing;
\* a call of terminate() on a pool that was already terminated changes no
\* state of the pool, of its jobs or of its units; and once the pool is
\* terminated no process command is sent to any unit (a later dispatch only
\* queues the job).
C21_TerminateStopsAll ==
    [][/\ workers' = <<>> => \A u \in Units : Stopped(u)'
       /\ (workers = <<>> /\ terminate) => UNCHANGED <<poolVars, jobVars, unitVars>>
       /\ workers = <<>> =>
            /\ workers' = <<>>
            /\ \A u \in Units : ~ProcessSent(u) /\ inbox'[u] = <<>>
    ]_vars

\* C21 witness: the pool was terminated while a unit was busy with a job, and
\* a job dispatched since then waits in the queue of the terminated pool.
C21_Witness ==
    /\ workers = <<>>
    /\ \E u \in Units : isBusy[u] /\ HeldJob(u) # NoJob
    /\ jobQueue # <<>> /\ \E u \in Units : ~isBusy[u]
    /\ \A u \in Units : Stopped(u)


\* The readFile calls of the fan-out that have not returned: chunkFiles.map
\* runs every callback up to its `await ffmpeg.readFile(chunkFilename)` before
\* the orchestrator awaits anything, so all reads are requested at once.
PendingReads ==
    IF opc \in {"join", "done"} THEN {i \in RunChunks : runJobs[i] = NoJob} ELSE {}

\* The number of operations outstanding on the coordinator's engine context:
\* the awaited operation of the stage the orchestrator is in, and the pending
\* reads of the fan-out.
EngineOutstanding ==
    (IF opc \in {"sanitize", "analyze", "chunk", "assemble", "concat", "read"}
     THEN 1 ELSE 0) + Cardinality(PendingReads)

\* C22: during a run at most one operation is outstanding on the
\* coordinator's engine context at any time, the fan-out that reads the chunk
\* files included.
C22_OneEngineOperation == EngineOutstanding <= 1


\* The process tasks of unit u for job j: the position of the handler of that
\* command; pass k (1..4) is analyzeLoudness, normalizeLoudness,
\* analyzeNormalized, masterEncode, pass 0 the write of the chunk file.
TasksOf(u, j) == {t \in unit[u].tasks : t.kind = "process" /\ t.job = j}

\* C23: within one unit the four passes of a job run in the order
\* AnalyzingLoudness (1), NormalizingLoudness (2), AnalyzingMastering (3),
\* Encoding (4): pass k starts only in the step in which pass k-1 returned
\* successfully, with the progress message of pass k; success is reported only
\* when pass 4 returned; and the step that reports the job's failure ends the
\* handler, so no later pass is invoked.
C23_PassesInOrder ==
    [][\A u \in Units : \A j \in JobIds :
        /\ \A t2 \in TasksOf(u, j)' :
             (t2.pass > 0 /\ t2 \notin unit[u].tasks) =>
                 /\ [t2 EXCEPT !.pass = @ - 1] \in unit[u].tasks
                 /\ Posted(u, Msg("progress", t2.chunkIndex, j, t2.pass))
        /\ \A t \in TasksOf(u, j) :
             /\ Posted(u, Msg("success", t.chunkIndex, j, 0)) => t.pass = NumPasses
             /\ (\E st \in {"success", "error"} : Posted(u, Msg(st, t.chunkIndex, j, 0)))
                    => TasksOf(u, j)' = {}
        /\ Cardinality(TasksOf(u, j)') <= 1
    ]_vars

\* C23 witness: a job failed in pass 2: the unit posted the progress message
\* of NormalizingLoudness and then the error message, and no task of the job is
\* left on the unit.
C23_Witness ==
    \E u \in Units :
        /\ Len(outbox[u]) >= 2
        /\ LET e == outbox[u][Len(outbox[u])]
               p == outbox[u][Len(outbox[u]) - 1]
           IN /\ e.status = "error" /\ e.chunkIndex # Undefined
              /\ p = Msg("progress", e.chunkIndex, e.data, 2)
              /\ TasksOf(u, e.data) = {}


\* The positions of the queue that hold job j.
QueueSlots(j) == {k \in 1 .. Len(jobQueue) : jobQueue[k] = j}

\* The busy units whose current job, by workerState and activeJobs, is job j.
Holders(j) == {u \in Units : isBusy[u] /\ HeldJob(u) = j}

ProgressStep(u) ==
    /\ MessageStep(u)
    /\ onmessage[u] = "handleWorkerMessage"
    /\ Head(outbox[u]).status = "progress"
    /\ Head(outbox[u]).chunkIndex \in ChunkIndexes
    /\ activeJobs[Head(outbox[u]).chunkIndex] # NoJob

\* C25: a progress message of a unit for a job with a pending record is
\* forwarded to the job's progress callback with the id of the sending unit,
\* the chunkIndex and the message, and the step changes no busy flag, no entry
\* of the unit-to-chunk mapping, not the queue, no pending record, no future.
C25_ProgressForwardedOnly ==
    [][\A u \in Units :
        ProgressStep(u) =>
            /\ progressSink' = [workerId |-> u,
                                chunkIndex |-> Head(outbox[u]).chunkIndex,
                                message |-> Head(outbox[u]).message]
            /\ UNCHANGED <<isBusy, workerState, jobQueue, activeJobs, future>>
    ]_vars

\* C25 witness: the progress message of the last pass of a job has just been
\* forwarded while another job waits in the queue.
C25_Witness ==
    /\ progressSink.message = NumPasses
    /\ progressSink.workerId \in Units
    /\ isBusy[progressSink.workerId]
    /\ workerState[progressSink.workerId] = progressSink.chunkIndex
    /\ jobQueue # <<>>

\* C26: each per-chunk pass checks its postcondition: when the engine call
\* returned without error (whatever its status) and the expected artifact is
\* not listed in the working directory, NormalizingLoudness, AnalyzingMastering
\* and Encoding each fail on that check and return nothing.
PassNames == {"normalizeLoudness", "analyzeNormalized", "masterEncode"}

C26_PostconditionChecked ==
    (call.fn \in PassNames /\ call.in.engine \in {"zero", "nonzero"}
                           /\ call.in.dir = "absent")
        => call.threw /\ call.cause = "postcondition" /\ call.value = Undefined

C26_Witness ==
    /\ call.fn = "analyzeNormalized"
    /\ call.in.engine = "zero"
    /\ call.in.dir = "absent"
    /\ call.threw
    /\ call.cause = "postcondition"
    /\ call.ops = <<"exec", "listDir", "deleteFile report">>

\* C27: when the engine signals failure for an invocation (exec throws, or
\* resolves with a status other than zero), the function that invoked it fails
\* with an error that carries the failing argument list and the captured
\* diagnostic text.
EngineInvoked == \E k \in DOMAIN call.ops : call.ops[k] = "exec"

C27_EngineFailureCarriesDetails ==
    (EngineInvoked /\ call.in.engine \in {"throws", "nonzero"})
        => call.threw /\ call.cause = "engine" /\ call.command /\ call.log

\* C28: in each sequential stage of the orchestrator, when the engine returned
\* without error but the stage's postcondition does not hold (sanitized file
\* missing, duration or layout not matched, no chunk file, final artifact
\* missing), the run ends with an error result and no later stage is invoked;
\* no job is ever dispatched in a run that failed in sanitize, analyze or split.
SequentialStages == {"sanitize", "analyze", "chunk", "concat"}

StageStep == opc \in SequentialStages /\ opc' # opc

C28_PostconditionEndsRun ==
    [][/\ (StageStep /\ call'.cause = "postcondition") =>
             /\ call'.threw
             /\ opc' = "done"
             /\ result' = "error"
             /\ jobs' = jobs
       /\ opc = "done" => (opc' = "done" /\ call' = call /\ result' = result)
       /\ (opc' = "done" /\ call'.threw
                         /\ call'.fn \in {"sanitize", "analyze", "chunk"}) =>
             /\ jobs' = <<>>
             /\ \A i \in ChunkIndexes : runJobs'[i] = NoJob
             /\ \A u \in Units : \A k \in DOMAIN inbox'[u] :
                    inbox'[u][k].command # "process"
      ]_vars

C28_Witness ==
    /\ opc = "done"
    /\ result = "error"
    /\ call.fn = "chunk"
    /\ call.cause = "postcondition"
    /\ call.ops = <<"exec", "listDir">>
    /\ jobs = <<>>
    /\ initPromise = "resolved"

\* The last operation a function attempted, and how often it attempted op.
LastOp == IF call.ops = <<>> THEN "none" ELSE call.ops[Len(call.ops)]

Attempts(op) == Cardinality({k \in DOMAIN call.ops : call.ops[k] = op})

\* C29: Encoding (masterEncode) attempts to delete the intermediate
\* normalized artifact on every outcome of the pass, engine error, missing
\* output artifact and success alike: the deletion is attempted exactly once
\* and is the last thing the pass does.
C29_NormalizedAlwaysDeleted ==
    call.fn = "masterEncode" =>
        /\ LastOp = "deleteFile normalized"
        /\ Attempts("deleteFile normalized") = 1

C29_Witness ==
    /\ call.fn = "masterEncode"
    /\ call.in.engine = "throws"
    /\ call.threw
    /\ call.cause = "engine"
    /\ call.ops = <<"exec", "deleteFile normalized">>

\* C30: AnalyzingMastering (analyzeNormalized) attempts to delete the
\* temporary report file on every outcome of the pass, engine failure, missing
\* report file, parse failure and success alike: the deletion is attempted
\* exactly once and is the last thing the pass does.
C30_ReportAlwaysDeleted ==
    call.fn = "analyzeNormalized" =>
        /\ LastOp = "deleteFile report"
        /\ Attempts("deleteFile report") = 1

C30_Witness ==
    /\ call.fn = "analyzeNormalized"
    /\ call.in.engine = "zero"
    /\ call.in.dir = "listed"
    /\ call.in.readable
    /\ call.in.text = ""
    /\ call.threw
    /\ call.cause = "parse"
    /\ call.ops = <<"exec", "listDir", "readFile", "deleteFile report">>

\* C33: parseRmsLevel returns 0.00 for a report whose Overall.RMS_level value
\* is the literal -inf, returns the number for a numeric value such as -23.4,
\* and raises an error when the report has no Overall.RMS_level line.
C33_ParseRmsLevel ==
    call.fn = "parseRmsLevel" =>
        /\ call.in.text = "-inf" => (~call.threw /\ call.value = 0)
        /\ call.in.text = "-23.4" => (~call.threw /\ call.value = -234)
        /\ call.in.text = "" => (call.threw /\ call.cause = "parse")

C33_Witness ==
    /\ call.fn = "parseRmsLevel"
    /\ call.in.text = "-inf"
    /\ ~call.threw
    /\ call.value = 0

\* C34: when the Overall.RMS_level value of the report is unparsable and is
\* not the literal -inf, AnalyzingMastering fails the chunk; it does not return
\* a substituted level for Encoding to go on with.
UnparsableTexts == {t \in ReportTexts : t # "" /\ t # "-inf" /\ parseFloat(t).nan}

C34_UnparsableIsHardFailure ==
    (/\ call.fn = "analyzeNormalized"
     /\ call.in.engine # "throws"
     /\ call.in.dir = "listed"
     /\ call.in.readable
     /\ call.in.text \in UnparsableTexts)
        => call.threw

\* The trailing JSON object of a diagnostic text: the text is some prefix, an
\* opening brace at i, one member list or none, a closing brace at j, and after
\* j nothing that holds a brace.
Braces(text, from) == {k \in DOMAIN text : k >= from /\ text[k].c \in {"{", "}"}}

TrailingObjectAt(text, i, j) ==
    /\ text[i].c = "{"
    /\ text[j].c = "}"
    /\ j = i + 1 \/ (j = i + 2 /\ text[i + 1].c = "body")
    /\ Braces(text, j + 1) = {}

HasTrailingObject(text) ==
    \E i, j \in DOMAIN text : i < j /\ TrailingObjectAt(text, i, j)

TrailingObject(text) ==
    LET i == CHOOSE k \in DOMAIN text :
                 \E j \in DOMAIN text : k < j /\ TrailingObjectAt(text, k, j)
    IN IF text[i + 1].c = "body" THEN text[i + 1].body ELSE NoBody

\* The four ways a text can be without a trailing JSON object.
NoOpeningBrace(text) == \A k \in DOMAIN text : text[k].c # "{"

NoClosingBrace(text) == \A k \in DOMAIN text : text[k].c # "}"

ClosingBeforeOpening(text) ==
    \E i, j \in DOMAIN text :
        /\ j < i
        /\ text[i].c = "{" /\ \A k \in DOMAIN text : k > i => text[k].c # "{"
        /\ text[j].c = "}" /\ \A k \in DOMAIN text : k > j => text[k].c # "}"

\* C35: parseLoudness returns a record whose five fields equal the
\* corresponding fields of the trailing JSON object of the diagnostic text, and
\* raises a parse error when the text has no opening brace, no closing brace, a
\* last closing brace before the last opening brace, or a trailing block that
\* is not valid JSON; analyzeLoudness fails in those cases.
C35_ParseLoudness ==
    /\ call.fn = "parseLoudness" =>
         IF HasTrailingObject(call.in.text)
         THEN /\ ~call.threw
              /\ call.value.measured_I = TrailingObject(call.in.text).input_i
              /\ call.value.measured_TP = TrailingObject(call.in.text).input_tp
              /\ call.value.measured_LRA = TrailingObject(call.in.text).input_lra
              /\ call.value.measured_thresh = TrailingObject(call.in.text).input_thresh
              /\ call.value.target_offset = TrailingObject(call.in.text).target_offset
         ELSE call.threw /\ call.cause = "parse"
    /\ (call.fn = "parseLoudness" /\
        (\/ NoOpeningBrace(call.in.text)
         \/ NoClosingBrace(call.in.text)
         \/ ClosingBeforeOpening(call.in.text))) => call.threw
    /\ (call.fn = "analyzeLoudness" /\ ~HasTrailingObject(call.in.text)) =>
         call.threw /\ call.cause \in {"parse", "engine", "TypeError"}
    /\ (call.fn = "analyzeLoudness" /\ ~call.threw) =>
         call.value = parseLoudness(call.in.text).data

C35_Witness ==
    /\ call.fn = "parseLoudness"
    /\ Len(call.in.text) = MaxLogLen
    /\ call.in.text[1].c = "{"
    /\ call.in.text[2].c = "}"
    /\ call.in.text[3].c = "{"
    /\ call.in.text[4].c = "body"
    /\ call.threw

\* The stages an option stands for, and the options in their fixed order.
OptionOrder == <<"gate", "clarity", "tonal", "softClip">>

StagesOf(option) ==
    CASE option = "gate" -> <<"agate">>
      [] option = "clarity" -> <<"equalizer 8000">>
      [] option = "tonal" -> <<"equalizer 92", "equalizer 185", "equalizer 5920">>
      [] option = "softClip" -> <<"asoftclip">>

IsSet(options, option) ==
    CASE option = "gate" -> options.gate
      [] option = "clarity" -> options.clarity
      [] option = "tonal" -> options.tonal
      [] option = "softClip" -> options.softClip

\* The filters of the stages from position k on.
FiltersFrom(chain, k) == [i \in 1 .. (Len(chain) - k + 1) |-> chain[i + k - 1].filter]

RECURSIVE ExpectedFrom(_, _)
ExpectedFrom(options, n) ==
    IF n > Len(OptionOrder) THEN <<>>
    ELSE (IF IsSet(options, OptionOrder[n]) THEN StagesOf(OptionOrder[n]) ELSE <<>>)
         \o ExpectedFrom(options, n + 1)

\* C32: for each of the 16 combinations of gate, clarity, tonal and softClip the
\* Encoding filter chain is the de-mud dynamic EQ with threshold RMS+3, the
\* high-frequency dynamic EQ with threshold 22, the limiter at 0.9, and then
\* exactly the stages of the enabled options in the order gate, clarity, the
\* three tonal bands, softClip, with no stage of a disabled option.
C32_FilterChain ==
    call.fn = "masteringFilters" =>
        /\ Len(call.value) >= 3
        /\ call.value[1] = Stage("adynamicequalizer 350", call.in.rmsLevel + 30)
        /\ call.value[2] = Stage("adynamicequalizer 7000", 220)
        /\ call.value[3] = Stage("alimiter", 9)
        /\ FiltersFrom(call.value, 4) = ExpectedFrom(call.in.options, 1)

C32_Witness ==
    /\ call.fn = "masteringFilters"
    /\ call.in.options.gate
    /\ ~call.in.options.clarity
    /\ call.in.options.tonal
    /\ call.in.options.softClip
    /\ call.in.rmsLevel = -234
    /\ Len(call.value) = 8
    /\ call.value[4].filter = "agate"
    /\ call.value[8].filter = "asoftclip"

\* C37: in every reachable state of the pool a unit is marked busy if and only
\* if workerState has an entry for it, and every chunkIndex in workerState has
\* a pending record in activeJobs; this holds also after a unit crash.
C37_BusyStateRecordAgree ==
    \A u \in Units :
        /\ isBusy[u] <=> workerState[u] # Undefined
        /\ workerState[u] # Undefined => activeJobs[workerState[u]] # NoJob

\* The message at the head of unit u's outbox matches no pending record: it
\* carries no chunkIndex, or one for which activeJobs has no entry.
MatchesNoRecord(u) ==
    /\ outbox[u] # <<>>
    /\ onmessage[u] = "handleWorkerMessage"
    /\ \/ Head(outbox[u]).chunkIndex \notin ChunkIndexes
       \/ activeJobs[Head(outbox[u]).chunkIndex] = NoJob

\* C38: a message from a unit whose chunkIndex matches no pending record,
\* including an error message that carries no chunkIndex, changes no pool
\* state: no future is settled, no unit is freed, nothing leaves the queue, and
\* no callback and no stage of the run is told of it.
C38_UnmatchedMessageIgnored ==
    [][\A u \in Units : (MatchesNoRecord(u) /\ DeliverMessage(u)) =>
          /\ UNCHANGED <<poolVars, jobVars, inbox>>
          /\ progressSink' = NoProgress
          /\ UNCHANGED orchVars
      ]_vars

C38_Witness ==
    \E u \in Units :
        /\ MatchesNoRecord(u)
        /\ Head(outbox[u]).status = "error"
        /\ Head(outbox[u]).chunkIndex = Undefined
        /\ isBusy[u]
        /\ HeldJob(u) # NoJob
        /\ future[HeldJob(u)].state = "pending"
        /\ jobQueue # <<>>

\* C36: a job's future is settled only by a message about that job's own
\* payload, also when the pool is reused by a later run while jobs of an
\* earlier failed run with the same chunkIndex are still in flight: a success
\* or error message about the earlier job never settles the later job's
\* future.
C36_SettledByOwnMessageOnly ==
    [][\A u \in Units :
          (DeliverMessage(u) /\ onmessage[u] = "handleWorkerMessage") =>
              \A j \in JobIds :
                  future'[j].state # future[j].state => Head(outbox[u]).data = j
      ]_vars

\* The values the engine measures in the chunkData of the command in hand,
\* under the names parseLoudness gives them.
MeasuredFor(audio) ==
    [target_offset |-> LoudnessOf(audio).target_offset,
     measured_I |-> LoudnessOf(audio).input_i,
     measured_TP |-> LoudnessOf(audio).input_tp,
     measured_LRA |-> LoudnessOf(audio).input_lra,
     measured_thresh |-> LoudnessOf(audio).input_thresh]

\* C31a: the loudness-normalize stage built for a chunk carries exactly the
\* five values measured for that chunk, after the same leading filter stages
\* as the analysis.
NormalizeStageFromOwnMeasurement ==
    workerScope.correctionFilter # NoFilters =>
        /\ workerScope.correctionFilter.loudnorm = MeasuredFor(workerScope.chunkData)
        /\ workerScope.correctionFilter.leading = workerScope.analysisFilter.leading

\* C31b: the encoding thresholds of a chunk come from the RMS level of that
\* chunk's own audio.
ThresholdsFromOwnRms ==
    workerScope.filters # <<>> =>
        workerScope.filters =
            masteringFilters(parseRmsLevel(RmsTextOf(workerScope.chunkData)).level.tenths,
                             workerScope.masteringOptions)

\* C31: the loudness-normalize stage built for a chunk is parameterized with
\* exactly the values measured for that same chunk, preceded by the same
\* leading filter stages as the analysis, and the encoding thresholds of a
\* chunk are derived from the RMS level measured for that same chunk, never
\* from another chunk processed on the same unit.
C31_OwnMeasurements ==
    NormalizeStageFromOwnMeasurement /\ ThresholdsFromOwnRms

\* C39: after a unit has sent the terminal message of a job (success or
\* error), /work holds none of that job's artifacts (chunk file, normalized
\* file, RMS report, mastered file), whichever pass failed.
C39_NoArtifactAfterTerminal ==
    (workerScope.pc = "idle" /\ workerScope.posted # "none") =>
        \A f \in workerScope.files : f.index # workerScope.chunkIndex

====
